---------------------------- MODULE Spec2Model ----------------------------
(***************************************************************************)
(* Model of the thermodynamic core of Boilingwater.app (src/src/App.jsx):  *)
(* calculatePressure, solveAntoineEquation, calculateBoilingPoint,         *)
(* calculateBoilingPointElevation, applyHeatEnergy and simulateTimeStep.   *)
(*                                                                         *)
(* NUMBERS.  A JavaScript number is modelled as a fixed-point integer: the *)
(* integer n stands for the real n / scale, where each physical quantity   *)
(* has its own scale (listed below).  Every arithmetic operation rounds    *)
(* its exact result to the nearest grid point, as IEEE-754 rounds every    *)
(* result to the nearest double; the grid is coarser than a double's, so   *)
(* absorption and rounding show up earlier, but by the same mechanism.     *)
(* The non-finite and missing values of JavaScript (Infinity, -Infinity,   *)
(* NaN, undefined, null) are integers outside the finite range, and every  *)
(* operator treats them as JavaScript does.                                *)
(***************************************************************************)
EXTENDS Integers, Sequences, FiniteSets, TLC

(***************************************************************************)
(* Encoding of JavaScript values                                           *)
(***************************************************************************)
Limit     == 2 * 10^9            \* finite numbers are -Limit .. Limit
PosInf    == Limit + 1           \* Infinity
NegInf    == 0 - (Limit + 1)     \* -Infinity
NaN       == Limit + 2
Undefined == Limit + 3           \* a missing field / argument
Null      == Limit + 4

\* Number.isFinite(x): false for NaN, +-Infinity, undefined and null
Number_isFinite(x) == x >= 0 - Limit /\ x <= Limit

\* Number.isNaN(x): true for the number NaN only
Number_isNaN(x) == x = NaN

\* ToNumber, applied by every arithmetic operator: undefined -> NaN, null -> 0
ToNumber(x) == IF x = Undefined THEN NaN ELSE IF x = Null THEN 0 ELSE x

\* !x of JavaScript: true for 0, NaN, undefined and null
Falsy(x) == x = 0 \/ x = NaN \/ x = Undefined \/ x = Null

Sign(x) == IF x > 0 THEN 1 ELSE IF x < 0 THEN 0 - 1 ELSE 0

Abs(x) == IF x < 0 THEN 0 - x ELSE x

\* a finite result outside the representable range overflows to +-Infinity
Saturate(x) == IF x > Limit THEN PosInf ELSE IF x < 0 - Limit THEN NegInf ELSE x

(***************************************************************************)
(* Exact wide arithmetic on naturals: quotient and remainder of a*b by c   *)
(* for a < c, taking three bits of b at a time so that no intermediate     *)
(* exceeds 32 bits (c < 2^27).                                             *)
(***************************************************************************)
RECURSIVE MulQR(_, _, _)
MulQR(a, b, c) ==
  IF b = 0 THEN <<0, 0>>
  ELSE LET h == MulQR(a, b \div 8, c)
           r == 8 * h[2] + (b % 8) * a
       IN  <<8 * h[1] + (r \div c), r % c>>

\* round(a*b/c) for naturals a, b and c > 0, to nearest (ties up); Limit + 1
\* when the quotient is beyond the range of finite numbers
MulDivNat(a, b, c) ==
  IF b = 0 \/ a <= (Limit \div b)
    THEN LET p == a * b IN (p \div c) + (IF 2 * (p % c) >= c THEN 1 ELSE 0)
    ELSE LET lo == IF a <= b THEN a ELSE b
             hi == IF a <= b THEN b ELSE a
         IN  IF (hi \div c) > (Limit \div lo) THEN Limit + 1
             ELSE LET qr == MulQR(hi % c, lo, c)
                  IN  (hi \div c) * lo + qr[1] + (IF 2 * qr[2] >= c THEN 1 ELSE 0)

\* round(a*b/c) for finite integers, c # 0; +-Infinity on overflow
MulDiv(a, b, c) ==
  LET n == MulDivNat(Abs(a), Abs(b), Abs(c))
      s == Sign(a) * Sign(b) * Sign(c)
  IN  IF n > Limit THEN (IF s > 0 THEN PosInf ELSE NegInf) ELSE s * n

(***************************************************************************)
(* JavaScript arithmetic on the encoded values                             *)
(***************************************************************************)
\* a + b
Plus(x, y) ==
  LET a == ToNumber(x)
      b == ToNumber(y)
  IN  IF a = NaN \/ b = NaN THEN NaN
      ELSE IF a = PosInf THEN (IF b = NegInf THEN NaN ELSE PosInf)
      ELSE IF a = NegInf THEN (IF b = PosInf THEN NaN ELSE NegInf)
      ELSE IF b = PosInf \/ b = NegInf THEN b
      ELSE Saturate(a + b)

\* -a
Neg(x) ==
  LET a == ToNumber(x)
  IN  IF a = NaN THEN NaN
      ELSE IF a = PosInf THEN NegInf
      ELSE IF a = NegInf THEN PosInf
      ELSE 0 - a

\* a - b
Minus(x, y) == Plus(x, Neg(y))

\* a * b, where d = scale(a) * scale(b) / scale(result)
Times(x, y, d) ==
  LET a == ToNumber(x)
      b == ToNumber(y)
  IN  IF a = NaN \/ b = NaN THEN NaN
      ELSE IF ~Number_isFinite(a) \/ ~Number_isFinite(b)
        THEN (IF a = 0 \/ b = 0 THEN NaN
              ELSE IF Sign(a) * Sign(b) > 0 THEN PosInf ELSE NegInf)
      ELSE MulDiv(a, b, d)

\* a / b, where m = scale(result) * scale(b) / scale(a)
Over(x, y, m) ==
  LET a == ToNumber(x)
      b == ToNumber(y)
  IN  IF a = NaN \/ b = NaN THEN NaN
      ELSE IF ~Number_isFinite(a)
        THEN (IF ~Number_isFinite(b) THEN NaN
              ELSE IF Sign(a) * (IF b < 0 THEN 0 - 1 ELSE 1) > 0 THEN PosInf ELSE NegInf)
      ELSE IF ~Number_isFinite(b) THEN 0
      ELSE IF b = 0
        THEN (IF a = 0 THEN NaN ELSE IF a > 0 THEN PosInf ELSE NegInf)
      ELSE MulDiv(a, m, b)

\* a < b, a <= b, a > b, a >= b: false when either side is NaN
Lt(x, y) ==
  LET a == ToNumber(x)
      b == ToNumber(y)
  IN  a # NaN /\ b # NaN /\ a < b

Le(x, y) ==
  LET a == ToNumber(x)
      b == ToNumber(y)
  IN  a # NaN /\ b # NaN /\ a <= b

Gt(x, y) == Lt(y, x)

Ge(x, y) == Le(y, x)

\* Math.max(a, b), Math.min(a, b): NaN when either argument is NaN
Math_max(x, y) ==
  LET a == ToNumber(x)
      b == ToNumber(y)
  IN  IF a = NaN \/ b = NaN THEN NaN ELSE IF a >= b THEN a ELSE b

Math_min(x, y) ==
  LET a == ToNumber(x)
      b == ToNumber(y)
  IN  IF a = NaN \/ b = NaN THEN NaN ELSE IF a <= b THEN a ELSE b

\* Math.abs(a)
Math_abs(x) ==
  LET a == ToNumber(x)
  IN  IF a = NaN THEN NaN
      ELSE IF a = PosInf \/ a = NegInf THEN PosInf
      ELSE Abs(a)

(***************************************************************************)
(* Math.log10 and Math.pow, computed in binary fixed point with FracBits   *)
(* fractional bits (the library functions of the JavaScript engine)        *)
(***************************************************************************)
\* 2^(2^-i) in binary fixed point, i = 1 .. FracBits
Exp2Table ==
  << 1482910, 1246974, 1143480, 1095000, 1071537, 1059994, 1054270, 1051419,
     1049997, 1049286, 1048931, 1048753, 1048665, 1048620, 1048598, 1048587,
     1048582, 1048579, 1048577, 1048577 >>

FracBits == Len(Exp2Table)
One      == 2^FracBits           \* 1.0 in binary fixed point

\* scale of logarithms, Antoine coefficients and Celsius temperatures
TScale == 10^5

\* floor(a*b/One) for naturals a, b in binary fixed point, by halves
Half == 2^(FracBits \div 2)

FixMul(a, b) ==
  LET ah == a \div Half
      al == a % Half
      bh == b \div Half
      bl == b % Half
  IN  ah * bh + ((ah * bl + al * bh + ((al * bl) \div Half)) \div Half)

\* <<e, m>> with n/d = (m/One) * 2^e and One <= m < 2*One, for naturals n, d > 0
RECURSIVE Normalise(_, _, _)
Normalise(n, d, e) ==
  IF n < d THEN Normalise(2 * n, d, e - 1)
  ELSE IF n >= 2 * d THEN Normalise(n, 2 * d, e + 1)
  ELSE <<e, MulDivNat(n, One, d)>>

\* the FracBits fractional bits of log2(m/One), by repeated squaring
RECURSIVE LogBits(_, _, _)
LogBits(m, i, acc) ==
  IF i = 0 THEN acc
  ELSE LET sq == FixMul(m, m)
       IN  IF sq >= 2 * One
             THEN LogBits(sq \div 2, i - 1, 2 * acc + 1)
             ELSE LogBits(sq, i - 1, 2 * acc)

\* log2(n/d) in binary fixed point, for naturals n, d > 0
Log2(n, d) ==
  LET nm == Normalise(n, d, 0)
  IN  nm[1] * One + LogBits(nm[2], FracBits, 0)

\* 2^(f/One) for 0 <= f < One: the product of the table entries of f's bits
RECURSIVE Exp2Frac(_, _, _)
Exp2Frac(f, i, acc) ==
  IF i > FracBits THEN acc
  ELSE IF (f \div 2^(FracBits - i)) % 2 = 1
         THEN Exp2Frac(f, i + 1, FixMul(acc, Exp2Table[i]))
         ELSE Exp2Frac(f, i + 1, acc)

\* floor division for a possibly negative numerator
FloorDiv(a, b) == IF a >= 0 THEN a \div b ELSE 0 - ((b - 1 - a) \div b)

\* 2^(e/One) in binary fixed point, saturating
Exp2(e) ==
  LET k == FloorDiv(e, One)
      r == Exp2Frac(e - k * One, 1, One)
  IN  IF k >= 0
        THEN (IF k > 10 THEN PosInf ELSE Saturate(r * 2^k))
        ELSE (IF k < 0 - 30 THEN 0 ELSE MulDivNat(r, 1, 2^(0 - k)))

\* Math.log10(x) for x = n/d given at scale d; the result is at scale TScale
Math_log10(x, d) ==
  LET a == ToNumber(x)
  IN  IF a = NaN \/ a < 0 THEN NaN
      ELSE IF a = 0 THEN NegInf
      ELSE IF a = PosInf THEN PosInf
      ELSE MulDiv(Log2(a, d), 30103, One)

\* Math.pow(x, y) for x in binary fixed point and a finite y > 0 at scale ys;
\* the result is in binary fixed point
Math_pow(x, y, ys) ==
  LET a == ToNumber(x)
  IN  IF a = NaN \/ a < 0 THEN NaN
      ELSE IF a = 0 THEN 0
      ELSE IF a = PosInf THEN PosInf
      ELSE Exp2(MulDiv(Log2(a, One), y, ys))

(***************************************************************************)
(* Scales.  altitude: metres (1); pressure: Pa (1); temperatures, Antoine  *)
(* coefficients and logarithms: TScale; Kelvin temperatures of the         *)
(* atmosphere model: KScale; mass: MassScale (kg); energy: EScale (J);     *)
(* heatInputWatts: W (1); deltaTime: TimeScale (s); specificHeat: CpScale  *)
(* (J/(g.degC)); heatOfVaporization: kJ/kg (1); coolingCoefficient:        *)
(* CoolScale (1/s); altitudeLapseRate: LapseScale (degC/m); vanHoffFactor  *)
(* and molality: SoluteScale.                                              *)
(***************************************************************************)
KScale      == 10^4
ExpScale    == 10^6
MassScale   == 10^7
EScale      == 10^3
TimeScale   == 10^3
CpScale     == 10^3
McScale     == 10^3
CoolScale   == 10^6
LapseScale  == 10^7
SoluteScale == 10^3

\* an optional object: <<>> when absent (null / undefined), <<r>> when present
Absent == <<>>

Some(r) == <<r>>

JSBool(b) == IF b THEN "true" ELSE "false"

\* const v = <expression>; F(v): the value of a local is computed first
\* (the comparison makes the evaluation of v strict) and then used by the rest
\* of the function body
Bind(v, F(_)) == CASE v = v -> F(v)

(***************************************************************************)
(* constants/physics (imported at App.jsx line 58)                         *)
(***************************************************************************)
\* ATMOSPHERE.STANDARD_PRESSURE, Pa
STANDARD_PRESSURE == 101325

\* ATMOSPHERE.TEMP_LAPSE_RATE, degC per metre at LapseScale (about 1 degC per 300 m)
TEMP_LAPSE_RATE == 33 * 10^3

\* GAME_CONFIG.ROOM_TEMPERATURE || 20
AMBIENT_TEMP == 20 * TScale

(***************************************************************************)
(* calculatePressure (App.jsx 239-268)                                     *)
(***************************************************************************)
T0 == 2881500     \* 288.15 K at KScale
L  == 65          \* 0.0065 K/m at KScale
g  == 980665      \* 9.80665 at 10^5
M  == 289644      \* 0.0289644 at 10^7
R  == 831447      \* 8.31447 at 10^5

\* (g * M) / (R * L), at ExpScale
IsaExponent == Over(Times(g, M, 10^3), Times(R, L, 1), ExpScale)

\* the altitude guard shared by calculatePressure and calculateBoilingPoint:
\* null, undefined and NaN become 0
AltitudeOrSeaLevel(altitude) ==
  IF altitude = Null \/ altitude = Undefined \/ Number_isNaN(altitude)
    THEN 0 ELSE altitude

calculatePressure(altitude0) ==
  LET altitude == AltitudeOrSeaLevel(altitude0)
      P0 == STANDARD_PRESSURE
  IN  Bind(Minus(T0, Times(L, altitude, 1)), LAMBDA T :
        \* above the troposphere T would be <= 0: the temperature at 11 km
        Bind(IF Le(T, 0) THEN Minus(T0, Times(L, 11000, 1)) ELSE T, LAMBDA Tk :
          Times(P0, Math_pow(Over(Tk, T0, One), IsaExponent, ExpScale), One)))

(***************************************************************************)
(* solveAntoineEquation (App.jsx 86-125)                                   *)
(* antoineCoeffs: Absent or Some([A, B, C, TminC, TmaxC]), all at TScale   *)
(***************************************************************************)
\* 1e-10 at TScale rounds to 0: only an exactly zero denominator is below it
DenominatorEps == 1

\* faulty variant: C is not looked at
MissingCoefficient_AB(co) == Falsy(co.A) \/ Falsy(co.B)

\* !A || !B || !C
MissingCoefficient(co) == Falsy(co.A) \/ Falsy(co.B) \/ Falsy(co.C)

\* faulty variant: the temperature clamped into the verified range
AntoineResult_clamped(boilingPoint, TminC, TmaxC) ==
  LET hasMinBound == Number_isFinite(TminC)
      hasMaxBound == Number_isFinite(TmaxC)
      belowMin    == hasMinBound /\ Lt(boilingPoint, TminC)
      aboveMax    == hasMaxBound /\ Gt(boilingPoint, TmaxC)
  IN  Some([temperature    |-> IF belowMin THEN TminC
                               ELSE IF aboveMax THEN TmaxC ELSE boilingPoint,
            isExtrapolated |-> belowMin \/ aboveMax,
            verifiedRange  |->
              [min |-> IF hasMinBound THEN TminC ELSE Null,
               max |-> IF hasMaxBound THEN TmaxC ELSE Null]])

\* the verified-range check and the returned object: no clamping
AntoineResult(boilingPoint, TminC, TmaxC) ==
  LET hasMinBound == Number_isFinite(TminC)
      hasMaxBound == Number_isFinite(TmaxC)
      belowMin    == hasMinBound /\ Lt(boilingPoint, TminC)
      aboveMax    == hasMaxBound /\ Gt(boilingPoint, TmaxC)
  IN  Some([temperature    |-> boilingPoint,
            isExtrapolated |-> belowMin \/ aboveMax,
            verifiedRange  |->
              [min |-> IF hasMinBound THEN TminC ELSE Null,
               max |-> IF hasMaxBound THEN TmaxC ELSE Null]])

solveAntoineEquation(pressurePa, antoineCoeffs) ==
  IF antoineCoeffs = Absent THEN Absent
  ELSE
    LET co == antoineCoeffs[1]
    IN  IF MissingCoefficient(co) THEN Absent
        ELSE
          \* pressureMmHg = pressurePa / 133.322; logP = Math.log10(pressureMmHg);
          \* denominator = A - logP
          Bind(Minus(co.A, Math_log10(Over(pressurePa, 133322, 10^6), 10^3)),
               LAMBDA denominator :
            IF Lt(Math_abs(denominator), DenominatorEps) THEN Absent
            ELSE
              AntoineResult(Minus(Over(co.B, denominator, TScale), co.C),
                            co.TminC, co.TmaxC))

(***************************************************************************)
(* calculateDynamicKb, calculateBoilingPointElevation (App.jsx 295-339)    *)
(***************************************************************************)
\* faulty variant: the boiling temperature is not converted to kelvin
calculateDynamicKb_celsius(boilingTempC) ==
  Over(Times(Times(Times(8314, boilingTempC, 10^3), boilingTempC, 10^8),
             18015, 10^4),
       40660, 100)

\* Kb = (R * Tb * Tb * Msolvent) / deltaHvap with the default solvent (water);
\* the result is at 10^6
calculateDynamicKb(boilingTempC) ==
  LET Rgas      == 8314                                  \* 8.314 at 10^3
      Tb        == Plus(boilingTempC, 27315 * 10^3)       \* + 273.15, TScale
      Msolvent  == Over(18015, 1000, 10^3)               \* 18.015 / 1000, at 10^6
      deltaHvap == Times(4066, 1000, 100)                \* 40.66 * 1000, at 1
      RT        == Times(Rgas, Tb, 10^3)                 \* at 10^5
      RTT       == Times(RT, Tb, 10^8)                   \* at 10^2
      RTTM      == Times(RTT, Msolvent, 10^4)            \* at 10^4
  IN  Over(RTTM, deltaHvap, 100)

\* solutionProps: Absent or Some(fluidProps)
calculateBoilingPointElevation(baseBoilingPointC, solutionProps) ==
  IF solutionProps = Absent THEN 0
  ELSE
    LET sp == solutionProps[1]
    IN  IF ~Number_isFinite(sp.vanHoffFactor) \/ ~Number_isFinite(sp.molality)
          THEN (IF Number_isFinite(sp.boilingPointElevation)
                  THEN sp.boilingPointElevation ELSE 0)
          ELSE Bind(calculateDynamicKb(baseBoilingPointC), LAMBDA Kb :
                 Times(Times(sp.vanHoffFactor, Kb, SoluteScale), sp.molality, 10^4))

(***************************************************************************)
(* calculateBoilingPoint (App.jsx 156-208)                                 *)
(* fluidProps: Absent or Some(record); the result is Absent (null) or      *)
(* Some([temperature, isExtrapolated, verifiedRange, baseBoilingPoint,     *)
(* elevation])                                                             *)
(***************************************************************************)
\* PRIORITY 2: the linear lapse-rate approximation
LinearFallback(altitude, fluidProps) ==
  LET fp == fluidProps[1]
      lapseRate == IF Number_isFinite(fp.altitudeLapseRate)
                     THEN fp.altitudeLapseRate ELSE TEMP_LAPSE_RATE
      temperatureDrop == Times(altitude, lapseRate, LapseScale \div TScale)
  IN  Bind(Minus(fp.boilingPointSeaLevel, temperatureDrop), LAMBDA baseBoilingPoint :
        Bind(calculateBoilingPointElevation(baseBoilingPoint, fluidProps),
             LAMBDA elevation :
          Some([temperature      |-> Plus(baseBoilingPoint, elevation),
                isExtrapolated   |-> FALSE,
                verifiedRange    |-> [min |-> Null, max |-> Null],
                baseBoilingPoint |-> baseBoilingPoint,
                elevation        |-> elevation])))

\* faulty variant: Antoine coefficients make up for a missing sea-level value
InsufficientData_unlessAntoine(fluidProps) ==
  \/ fluidProps = Absent
  \/ /\ ~Number_isFinite(fluidProps[1].boilingPointSeaLevel)
     /\ fluidProps[1].antoineCoefficients = Absent

\* !fluidProps || !Number.isFinite(fluidProps.boilingPointSeaLevel)
InsufficientData(fluidProps) ==
  \/ fluidProps = Absent
  \/ ~Number_isFinite(fluidProps[1].boilingPointSeaLevel)

\* faulty variant: an extrapolated Antoine result is passed over
AntoineUsable_verifiedOnly(antoineResult) ==
  /\ antoineResult # Absent
  /\ Number_isFinite(antoineResult[1].temperature)
  /\ ~antoineResult[1].isExtrapolated

\* antoineResult && Number.isFinite(antoineResult.temperature)
AntoineUsable(antoineResult) ==
  /\ antoineResult # Absent
  /\ Number_isFinite(antoineResult[1].temperature)

calculateBoilingPoint(altitude0, fluidProps) ==
  IF InsufficientData(fluidProps) THEN Absent
  ELSE
    LET fp == fluidProps[1]
        altitude == AltitudeOrSeaLevel(altitude0)
    IN  \* PRIORITY 1: the Antoine equation at the atmospheric pressure
        Bind(IF fp.antoineCoefficients = Absent THEN Absent
             ELSE solveAntoineEquation(calculatePressure(altitude),
                                       fp.antoineCoefficients),
             LAMBDA antoineResult :
          IF AntoineUsable(antoineResult)
            THEN Bind(calculateBoilingPointElevation(antoineResult[1].temperature,
                                                     fluidProps),
                      LAMBDA elevation :
                   LET ar == antoineResult[1]
                   IN  Some([temperature      |-> Plus(ar.temperature, elevation),
                             isExtrapolated   |-> ar.isExtrapolated,
                             verifiedRange    |-> ar.verifiedRange,
                             baseBoilingPoint |-> ar.temperature,
                             elevation        |-> elevation]))
            ELSE LinearFallback(altitude, fluidProps))

(***************************************************************************)
(* calculateHeatingEnergy (App.jsx 367-379), applyHeatEnergy (411-455)     *)
(***************************************************************************)
\* faulty variant: the kilograms taken for grams (no conversion)
MassGrams_unconverted(mass) == Times(mass, 1, 1000)

\* mass * 1000: grams, at MassScale / 1000
MassGrams(mass) == Times(mass, 1000, 1000)

\* massGrams * specificHeat, J/degC at McScale
HeatCapacity(massGrams, specificHeat) ==
  Times(massGrams, specificHeat, ((MassScale \div 1000) * CpScale) \div McScale)

\* fluidProps is a record here (the function dereferences it unguarded)
calculateHeatingEnergy(mass, tempStart, tempEnd, fluidProps) ==
  LET deltaT    == Minus(tempEnd, tempStart)
      massGrams == MassGrams(mass)
  IN  Times(HeatCapacity(massGrams, fluidProps.specificHeat), deltaT,
            (McScale * TScale) \div EScale)

\* faulty variant: only a negative mass is refused
HeatGuard_negativeMass(specificHeat, mass) ==
  ~Number_isFinite(specificHeat) \/ Lt(mass, 0)

\* !Number.isFinite(fluidProps?.specificHeat) || mass <= 0
HeatGuard(specificHeat, mass) ==
  ~Number_isFinite(specificHeat) \/ Le(mass, 0)

\* faulty variant: nothing ever boils
CanBoil_never(boilingPoint, heatOfVaporization) == FALSE

\* faulty variant: any vaporization data will do
CanBoil_anyVaporization(boilingPoint, heatOfVaporization) ==
  Number_isFinite(boilingPoint) /\ Number_isFinite(heatOfVaporization)

\* canBoil = Number.isFinite(boilingPoint) &&
\*   Number.isFinite(fluidProps?.heatOfVaporization) && fluidProps.heatOfVaporization > 0
CanBoil(boilingPoint, heatOfVaporization) ==
  /\ Number_isFinite(boilingPoint)
  /\ Number_isFinite(heatOfVaporization)
  /\ Gt(heatOfVaporization, 0)

\* fluidProps: Absent or Some(record)
applyHeatEnergy(mass, currentTemp, energyJoules, boilingPoint, fluidProps) ==
  LET specificHeat == IF fluidProps = Absent THEN Undefined
                      ELSE fluidProps[1].specificHeat
      heatOfVaporization == IF fluidProps = Absent THEN Undefined
                            ELSE fluidProps[1].heatOfVaporization
  IN  IF HeatGuard(specificHeat, mass)
        THEN [newTemp |-> currentTemp, energyToVaporization |-> 0, steamGenerated |-> 0]
        ELSE
          LET massGrams == MassGrams(mass)
              tempIncrease == Over(energyJoules, HeatCapacity(massGrams, specificHeat),
                                   (TScale * McScale) \div EScale)
              canBoil == CanBoil(boilingPoint, heatOfVaporization)
          IN  Bind(Plus(currentTemp, tempIncrease), LAMBDA potentialNewTemp :
                IF ~canBoil \/ Lt(potentialNewTemp, boilingPoint)
                  THEN [newTemp |-> potentialNewTemp, energyToVaporization |-> 0,
                        steamGenerated |-> 0]
                  ELSE
                    \* remainingEnergy = energyJoules - energyToBoiling
                    Bind(Minus(energyJoules,
                               calculateHeatingEnergy(mass, currentTemp, boilingPoint,
                                                      fluidProps[1])),
                         LAMBDA remainingEnergy :
                      LET steamGenerated ==
                            Over(remainingEnergy, Times(heatOfVaporization, 1000, 1),
                                 MassScale \div EScale)
                      IN  [newTemp |-> boilingPoint,
                           energyToVaporization |-> remainingEnergy,
                           steamGenerated |-> Math_max(0, steamGenerated)]))

(***************************************************************************)
(* simulateTimeStep (App.jsx 553-617)                                      *)
(* state: [waterMass, temperature, altitude, residueMass] plus the fields  *)
(* a tick adds (Undefined / "undefined" / Absent until a tick sets them);  *)
(* fluidProps: Absent or Some(record)                                      *)
(***************************************************************************)
\* residueMass = Number.isFinite(state.residueMass) ? state.residueMass : 0
ResidueMass(state) ==
  IF Number_isFinite(state.residueMass) THEN state.residueMass ELSE 0

\* evaporableMass = Math.max(0, waterMass - residueMass)
EvaporableMass(waterMass, residueMass) == Math_max(0, Minus(waterMass, residueMass))

\* faulty variant: the state returned as it came, without the flag
TerminalState_unflagged(state, evaporableMass) == state

\* faulty variant: the fluid zeroed, residue and all
TerminalState_emptied(state, evaporableMass) ==
  [state EXCEPT !.allEvaporated = JSBool(Le(evaporableMass, 0)), !.waterMass = 0]

\* the terminal guard's result: { ...state, allEvaporated: evaporableMass <= 0 }
TerminalState(state, evaporableMass) ==
  [state EXCEPT !.allEvaporated = JSBool(Le(evaporableMass, 0))]

\* faulty variant: no floor at the ambient temperature
CoolingPhase_unclamped(currentTemp, coolingCoefficient, deltaTime) ==
  LET tempDifference == Minus(currentTemp, AMBIENT_TEMP)
      coolingRate ==
        Times(Times(coolingCoefficient, tempDifference, CoolScale), deltaTime, TimeScale)
  IN  Minus(currentTemp, coolingRate)

\* COOLING PHASE, the body of the if: Newton's law of cooling, floored at ambient
CoolingPhase(currentTemp, coolingCoefficient, deltaTime) ==
  LET tempDifference == Minus(currentTemp, AMBIENT_TEMP)
      coolingRate ==
        Times(Times(coolingCoefficient, tempDifference, CoolScale), deltaTime, TimeScale)
  IN  Math_max(Minus(currentTemp, coolingRate), AMBIENT_TEMP)

\* faulty variant: the fluid also cools while the burner is on
CoolingApplies_whileHeating(currentTemp, heatInputWatts) ==
  Gt(currentTemp, AMBIENT_TEMP)

\* currentTemp > AMBIENT_TEMP && heatInputWatts <= 0
CoolingApplies(currentTemp, heatInputWatts) ==
  Gt(currentTemp, AMBIENT_TEMP) /\ Le(heatInputWatts, 0)

\* faulty variant: the steam added to the fluid instead of taken from it
NextWaterMass_added(waterMass, steamGenerated, residueMass) ==
  Math_max(Plus(waterMass, steamGenerated), residueMass)

\* faulty variant: the steam is not taken off the mass
NextWaterMass_kept(waterMass, steamGenerated, residueMass) ==
  Math_max(waterMass, residueMass)

\* nextWaterMass = Math.max(waterMass - steamGenerated, residueMass)
NextWaterMass(waterMass, steamGenerated, residueMass) ==
  Math_max(Minus(waterMass, steamGenerated), residueMass)

\* faulty variant: the fields a tick reports are cleared
UnchangedState_cleared(state) ==
  [state EXCEPT !.isBoiling = "false", !.steamGenerated = 0,
                !.energyToVaporization = 0]

\* return { ...state }: a copy with the same fields and values
UnchangedState(state) == state

simulateTimeStep(state, heatInputWatts, deltaTime, fluidProps) ==
  LET waterMass      == state.waterMass
      temperature    == state.temperature
      altitude       == state.altitude
      residueMass    == ResidueMass(state)
      evaporableMass == EvaporableMass(waterMass, residueMass)
  IN  IF Le(waterMass, 0) \/ Le(evaporableMass, 0)
        THEN TerminalState(state, evaporableMass)
      ELSE IF fluidProps = Absent THEN UnchangedState(state)
      ELSE
        Bind(calculateBoilingPoint(altitude, fluidProps), LAMBDA boilingPointResult :
          LET fp == fluidProps[1]
              boilingPoint == IF boilingPointResult = Absent THEN Null
                              ELSE boilingPointResult[1].temperature
              canBoil == fp.canBoil /\ Number_isFinite(boilingPoint)
          IN
          \* HEATING PHASE
          Bind(IF Gt(heatInputWatts, 0)
                 THEN applyHeatEnergy(waterMass, temperature,
                                      Times(heatInputWatts, deltaTime, 1),
                                      boilingPoint, fluidProps)
                 ELSE [newTemp |-> temperature, energyToVaporization |-> 0,
                       steamGenerated |-> 0],
               LAMBDA result :
            \* COOLING PHASE
            Bind(IF CoolingApplies(result.newTemp, heatInputWatts)
                   THEN CoolingPhase(result.newTemp, fp.coolingCoefficient, deltaTime)
                   ELSE result.newTemp,
                 LAMBDA currentTemp :
              LET steamGenerated ==
                    IF canBoil THEN Math_min(result.steamGenerated, evaporableMass)
                    ELSE 0
              IN  [state EXCEPT
                     !.temperature = currentTemp,
                     !.waterMass = NextWaterMass(waterMass, steamGenerated, residueMass),
                     !.energyToVaporization = result.energyToVaporization,
                     !.steamGenerated = steamGenerated,
                     !.isBoiling = JSBool(canBoil /\ Ge(currentTemp, boilingPoint)
                                            /\ Gt(steamGenerated, 0)),
                     !.isExtrapolated =
                        IF boilingPointResult = Absent THEN "false"
                        ELSE JSBool(boilingPointResult[1].isExtrapolated),
                     !.verifiedRange =
                        IF boilingPointResult = Absent THEN [min |-> Null, max |-> Null]
                        ELSE boilingPointResult[1].verifiedRange])))

(***************************************************************************)
(* The caller: a game loop that owns one simulation state, calls           *)
(* simulateTimeStep with the state it got back, and may reset the state.   *)
(***************************************************************************)
VARIABLES
  state,      \* the simulation state the caller holds
  prev,       \* the state passed to the latest tick
  input,      \* the arguments of the latest tick
  op,         \* "init", "tick" or "reset": the latest step
  ticks,      \* ticks made so far
  resets,     \* resets made so far
  alt1, alt2, \* two altitudes handed to the atmosphere functions
  p1, p2,     \* calculatePressure of alt1 and of alt2
  bp1, bp0,   \* calculateBoilingPoint of water at alt1 and at altitude 0
  antoineIn,  \* <<pressurePa, antoineCoeffs>> handed to solveAntoineEquation
  antoineOut, \* its result
  phase,      \* "idle"; or "ready" before and "done" after a function call
  args,       \* the arguments handed to another pure function
  result,     \* what that function returned
  app,        \* the App component: its three useState values, the effects,
              \* the initializeTheme promise, and what the latest render shows
  ledger      \* the caller's books: the fluid mass of the state it started
              \* from and the steamGenerated of every state returned since

vars == <<state, prev, input, op, ticks, resets, alt1, alt2, p1, p2, bp1, bp0,
          antoineIn, antoineOut, phase, args, result, app, ledger>>

simVars  == <<state, prev, input, op, ticks, resets, ledger>>
pureVars == <<alt1, alt2, p1, p2, bp1, bp0, antoineIn, antoineOut, phase,
              args, result>>

\* bounds of the model
MaxTicks      == 2
MaxResets     == 1
ScenarioTicks == 2000
MaxStage      == 7
MaxChain      == 3

(***************************************************************************)
(* App (App.jsx 7-54): a function component with three state hooks and two *)
(* mount effects.  app.theme is the promise of initializeTheme:            *)
(* "unrequested", "pending", then "applied" or "defaults" once the         *)
(* continuation after the await (or the catch block) has run.              *)
(***************************************************************************)
\* return (...): Header and GameScene only when themeLoaded; GameScene gets
\* stage and location
RenderApp(a) ==
  IF a.themeLoaded
    THEN [header |-> TRUE,
          gameScene |-> Some([stage |-> a.gameStage, location |-> a.userLocation])]
    ELSE [header |-> FALSE, gameScene |-> Absent]

\* the component after its first render: useState(0), useState(null),
\* useState(false); the effects have not run yet
AppMounted ==
  [gameStage |-> 0, userLocation |-> Absent, themeLoaded |-> FALSE,
   effects |-> "pending", theme |-> "unrequested",
   rendered |-> [header |-> FALSE, gameScene |-> Absent]]

\* faulty variant: the failure is logged and nothing else
ThemeFailed_loggedOnly(a) == [a EXCEPT !.theme = "defaults"]

\* catch (error) { console.error(...); setThemeLoaded(true) }
ThemeFailed(a) == [a EXCEPT !.themeLoaded = TRUE, !.theme = "defaults"]

Celsius(whole, frac) == whole * TScale + frac     \* frac in 1/TScale degC
Grams(n) == n * (MassScale \div 1000)

(***************************************************************************)
(* Substances, flattened as the substance loader hands them to the physics *)
(***************************************************************************)
WaterAntoine ==
  [A |-> 807131, B |-> 173063000, C |-> 23342600,
   TminC |-> Celsius(1, 0), TmaxC |-> Celsius(100, 0)]

Water ==
  [specificHeat |-> 4186, heatOfVaporization |-> 2257,
   boilingPointSeaLevel |-> Celsius(100, 0), altitudeLapseRate |-> 33 * 10^3,
   antoineCoefficients |-> Some(WaterAntoine), coolingCoefficient |-> 1500,
   vanHoffFactor |-> Undefined, molality |-> Undefined,
   boilingPointElevation |-> Undefined, canBoil |-> TRUE]

\* a 3% NaCl solution: no Antoine data of its own, dynamic elevation
Saltwater ==
  [Water EXCEPT !.antoineCoefficients = Absent, !.specificHeat = 3993,
                !.vanHoffFactor = 1900, !.molality = 530,
                !.coolingCoefficient = 1200000]

\* a fluid flagged as not boiling
Glycerin ==
  [Water EXCEPT !.antoineCoefficients = Absent, !.specificHeat = 2430,
                !.boilingPointSeaLevel = Celsius(290, 0),
                !.boilingPointElevation = 0, !.canBoil = FALSE]

Substances == {Water, Saltwater, Glycerin}

\* <<heatInputWatts (W), deltaTime (ms)>> of a tick: burner off or on for a
\* second, and a short frame with the burner off
TickInputs == { <<0, 1000>>, <<10000, 1000>>, <<0, 100>> }

NoTickFields ==
  [allEvaporated |-> "undefined", energyToVaporization |-> Undefined,
   steamGenerated |-> Undefined, isBoiling |-> "undefined",
   isExtrapolated |-> "undefined",
   verifiedRange |-> [min |-> Undefined, max |-> Undefined]]

\* a state as the caller creates it
NewState(mass, residue, temp, alt) ==
  [waterMass |-> mass, residueMass |-> residue, temperature |-> temp,
   altitude |-> alt] @@ NoTickFields

InitialMasses ==
  { <<Grams(5), 0>>, <<Grams(5), Grams(3)>>, <<Grams(10), Undefined>>,
    <<Grams(3), Grams(3)>>, <<0, 0>> }

InitialTemps ==
  { Celsius(5, 0), Celsius(20, 100), Celsius(60, 0), Celsius(120, 0) }

InitialStates ==
  { NewState(mr[1], mr[2], t, a) : mr \in InitialMasses, t \in InitialTemps,
                                   a \in {0, 1609} }

NoInput == [heat |-> 0, dt |-> 0, fluid |-> Absent]

\* the books when the caller starts from a state
NewLedger(s) == [initialMass |-> s.waterMass, steam |-> 0]

\* the books after a call returned a state: its steamGenerated is added
Recorded(l, returned) == [l EXCEPT !.steam = Plus(@, returned.steamGenerated)]

PureIdle ==
  /\ alt1 = 0 /\ alt2 = 0 /\ p1 = 0 /\ p2 = 0
  /\ bp1 = Absent /\ bp0 = Absent
  /\ antoineIn = <<0, Absent>> /\ antoineOut = Absent
  /\ phase = "idle"
  /\ args = <<>> /\ result = <<>>
  /\ app = AppMounted

Init ==
  /\ state \in InitialStates
  /\ prev = state
  /\ input = NoInput
  /\ op = "init"
  /\ ticks = 0
  /\ resets = 0
  /\ ledger = NewLedger(state)
  /\ PureIdle

\* one call of simulateTimeStep, its result threaded as the next input
Tick(heat, dt, fluid) ==
  /\ ticks < MaxTicks
  /\ state' = simulateTimeStep(state, heat, dt, fluid)
  /\ prev' = state
  /\ input' = [heat |-> heat, dt |-> dt, fluid |-> fluid]
  /\ op' = "tick"
  /\ ticks' = ticks + 1
  /\ ledger' = Recorded(ledger, state')
  /\ UNCHANGED <<resets, pureVars, app>>

\* the caller starts over with a fresh state
Reset ==
  /\ resets < MaxResets
  /\ op = "tick"
  /\ \E s \in InitialStates :
       /\ s.altitude = state.altitude
       /\ s.temperature = Celsius(60, 0)
       /\ state' = s
       /\ ledger' = NewLedger(s)
  /\ prev' = state
  /\ input' = NoInput
  /\ op' = "reset"
  /\ resets' = resets + 1
  /\ UNCHANGED <<ticks, pureVars, app>>

\* a tick with the substance loaded, and one before it is loaded
TickWith == \E i \in TickInputs, f \in Substances : Tick(i[1], i[2], Some(f))

TickWithout == \E i \in TickInputs : Tick(i[1], i[2], Absent)

Next == TickWith \/ TickWithout \/ Reset

Spec == Init /\ [][Next]_vars

(***************************************************************************)
(* One tick on any of the starting states: burner on (weak and strong),    *)
(* off, and a negative heat input; a second and a tenth of a second        *)
(***************************************************************************)
\* heatInputWatts (W)
TickHeats == {-500, 0, 200, 10000}

\* deltaTime (ms)
TickDurations == {100, 1000}

TickOnce ==
  /\ ticks = 0
  /\ \E h \in TickHeats, dt \in TickDurations, f \in Substances :
       Tick(h, dt, Some(f))

NextTick == TickOnce

SpecTick == Init /\ [][NextTick]_vars

(***************************************************************************)
(* The same loop over substances whose data are incomplete or degenerate   *)
(***************************************************************************)
NoCooling == [Water EXCEPT !.coolingCoefficient = Undefined]

NoSpecificHeat == [Water EXCEPT !.specificHeat = Undefined]

ZeroSpecificHeat == [Water EXCEPT !.specificHeat = 0]

NoVaporization == [Water EXCEPT !.heatOfVaporization = Undefined]

ZeroHeatNoVaporization ==
  [Water EXCEPT !.specificHeat = 0, !.heatOfVaporization = Undefined]

DegenerateSubstances ==
  {NoCooling, NoSpecificHeat, ZeroSpecificHeat, NoVaporization, ZeroHeatNoVaporization}

TickDegenerate ==
  \E i \in TickInputs, f \in DegenerateSubstances : Tick(i[1], i[2], Some(f))

NextDegenerate == TickDegenerate \/ Reset

SpecDegenerate == Init /\ [][NextDegenerate]_vars

(***************************************************************************)
(* The end-to-end heating scenario: one kilogram of water at 20 degC at    *)
(* sea level, a heater of constant power, ticks of 0.1 s                   *)
(***************************************************************************)
\* water with no Antoine data: its boiling point at sea level is
\* boilingPointSeaLevel itself, 100 degC
PlainWater == [Water EXCEPT !.antoineCoefficients = Absent]

ScenarioInputs ==
  { [heat |-> h, dt |-> 100, fluid |-> Some(f)] :
      h \in {2000, 1700}, f \in {Water, PlainWater} }

InitScenario ==
  /\ state = NewState(Grams(1000), 0, Celsius(20, 0), 0)
  /\ prev = state
  /\ input \in ScenarioInputs
  /\ op = "init"
  /\ ticks = 0
  /\ resets = 0
  /\ ledger = NewLedger(state)
  /\ PureIdle

ScenarioTick ==
  /\ ticks < ScenarioTicks
  /\ state' = simulateTimeStep(state, input.heat, input.dt, input.fluid)
  /\ prev' = state
  /\ op' = "tick"
  /\ ticks' = ticks + 1
  /\ ledger' = Recorded(ledger, state')
  /\ UNCHANGED <<input, resets, pureVars, app>>

NextScenario == ScenarioTick

SpecScenario == InitScenario /\ [][NextScenario]_vars

(***************************************************************************)
(* A chain of ticks on one substance at one altitude, the burner turned    *)
(* up, off and down between ticks                                          *)
(***************************************************************************)
\* the boiling point simulateTimeStep resolves for a state and a substance
BoilingPointOf(s, fluid) ==
  LET r == calculateBoilingPoint(s.altitude, fluid)
  IN  IF r = Absent THEN Null ELSE r[1].temperature

\* heatInputWatts and deltaTime (ms) of the ticks of a chain
ChainInputs == { <<0 - 500, 1000>>, <<0, 1000>>, <<200, 100>>, <<10000, 1000>> }

\* a boilable substance and a state at or below its boiling point
InitChain ==
  /\ \E f \in {Water, Saltwater} :
       /\ input = [heat |-> 0, dt |-> 0, fluid |-> Some(f)]
       /\ state \in { s \in InitialStates :
                        Le(s.temperature, BoilingPointOf(s, Some(f))) }
  /\ prev = state
  /\ op = "init"
  /\ ticks = 0
  /\ resets = 0
  /\ ledger = NewLedger(state)
  /\ PureIdle

ChainTick ==
  /\ ticks < MaxChain
  /\ \E i \in ChainInputs :
       /\ state' = simulateTimeStep(state, i[1], i[2], input.fluid)
       /\ input' = [input EXCEPT !.heat = i[1], !.dt = i[2]]
  /\ prev' = state
  /\ op' = "tick"
  /\ ticks' = ticks + 1
  /\ ledger' = Recorded(ledger, state')
  /\ UNCHANGED <<resets, pureVars, app>>

NextChain == ChainTick

SpecChain == InitChain /\ [][NextChain]_vars

(***************************************************************************)
(* Sustained heating: the same burner power, tick length and substance in  *)
(* every tick, for as long as the caller goes on.  Ticks are not counted   *)
(* and no books are kept, so a tick that changes nothing is a stuttering   *)
(* step.  simulateTimeStep is a pure function; result holds what the call  *)
(* on the current state returns.                                           *)
(***************************************************************************)
\* a pot of one kilogram, one with half a kilogram of residue, one above the
\* boiling point, and a few grams above the boiling point
SustainedStates ==
  { NewState(Grams(1000), 0, Celsius(20, 0), 0),
    NewState(Grams(1000), Grams(500), Celsius(60, 0), 0),
    NewState(Grams(1000), Undefined, Celsius(120, 0), 1609),
    NewState(Grams(5), Grams(3), Celsius(120, 0), 0) }

\* 10 kW and 2 kW in ticks of 1 s, and 1 W in ticks of 1 ms
SustainedInputs == { <<10000, 1000>>, <<2000, 1000>>, <<1, 1>> }

InitSustained ==
  /\ state \in SustainedStates
  /\ \E i \in SustainedInputs, f \in {Water, Saltwater} :
       input = [heat |-> i[1], dt |-> i[2], fluid |-> Some(f)]
  /\ prev = state
  /\ op = "init"
  /\ ticks = 0
  /\ resets = 0
  /\ ledger = NewLedger(state)
  /\ alt1 = 0 /\ alt2 = 0 /\ p1 = 0 /\ p2 = 0
  /\ bp1 = Absent /\ bp0 = Absent
  /\ antoineIn = <<0, Absent>> /\ antoineOut = Absent
  /\ phase = "idle"
  /\ args = <<>>
  /\ result = simulateTimeStep(state, input.heat, input.dt, input.fluid)
  /\ app = AppMounted

\* the call returns and the caller takes the returned state as its state
TakeReturnedState ==
  /\ state' = result
  /\ prev' = state
  /\ op' = "tick"

SustainedTick ==
  /\ TakeReturnedState
  /\ result' = simulateTimeStep(result, input.heat, input.dt, input.fluid)
  /\ UNCHANGED <<input, ticks, resets, ledger, app, alt1, alt2, p1, p2, bp1, bp0,
                 antoineIn, antoineOut, phase, args>>

NextSustained == SustainedTick

SpecSustained == InitSustained /\ [][NextSustained]_vars

\* the caller keeps calling: a returned state that differs from what the
\* caller holds is eventually taken
SpecSustainedLive == SpecSustained /\ WF_<<state, prev, op>>(TakeReturnedState)

(***************************************************************************)
(* calculatePressure and calculateBoilingPoint called on two altitudes     *)
(***************************************************************************)
SimIdle ==
  /\ state = NewState(0, 0, Celsius(20, 0), 0)
  /\ prev = state
  /\ input = NoInput
  /\ op = "init"
  /\ ticks = 0
  /\ resets = 0
  /\ ledger = NewLedger(state)
  /\ app = AppMounted

\* metres; and the values JavaScript has for a missing or non-finite number
Altitudes ==
  { 0, 1609, 8848, 11000, 12000, 20000, 44000, 44331, 50000,
    Null, Undefined, NaN, PosInf, NegInf }

InitPressure ==
  /\ SimIdle
  /\ alt1 \in Altitudes /\ alt2 \in Altitudes
  /\ p1 = 0 /\ p2 = 0
  /\ bp1 = Absent /\ bp0 = Absent
  /\ antoineIn = <<0, Absent>> /\ antoineOut = Absent
  /\ phase = "ready"
  /\ args = <<>> /\ result = <<>>

EvaluateAltitudes ==
  /\ phase = "ready"
  /\ p1' = calculatePressure(alt1)
  /\ p2' = calculatePressure(alt2)
  /\ bp1' = calculateBoilingPoint(alt1, Some(Water))
  /\ bp0' = calculateBoilingPoint(0, Some(Water))
  /\ phase' = "done"
  /\ UNCHANGED <<app, simVars, alt1, alt2, antoineIn, antoineOut, args, result>>

NextPressure == EvaluateAltitudes

SpecPressure == InitPressure /\ [][NextPressure]_vars

(***************************************************************************)
(* solveAntoineEquation called on a pressure and a coefficients object     *)
(***************************************************************************)
\* Pa: sea level, 1000 mmHg (log10 = 3), the 11 km pressure, 10 mmHg
AntoinePressures == {STANDARD_PRESSURE, 133322, 22633, 1333}

\* coefficient objects as a substance file can give them: numbers, zero,
\* null, or the field left out
AntoineCoefficients ==
  { [A |-> a, B |-> b, C |-> c, TminC |-> Celsius(1, 0), TmaxC |-> Celsius(100, 0)] :
      a \in {WaterAntoine.A, 3 * TScale, 0, Undefined, Null},
      b \in {WaterAntoine.B, 0, Undefined},
      c \in {WaterAntoine.C, 0, Null} }

AntoineInputs ==
  { <<pa, Absent>> : pa \in AntoinePressures }
    \cup { <<pa, Some(co)>> : pa \in AntoinePressures, co \in AntoineCoefficients }

InitAntoine ==
  /\ SimIdle
  /\ alt1 = 0 /\ alt2 = 0 /\ p1 = 0 /\ p2 = 0
  /\ bp1 = Absent /\ bp0 = Absent
  /\ antoineIn \in AntoineInputs
  /\ antoineOut = Absent
  /\ phase = "ready"
  /\ args = <<>> /\ result = <<>>

SolveAntoine ==
  /\ phase = "ready"
  /\ antoineOut' = solveAntoineEquation(antoineIn[1], antoineIn[2])
  /\ phase' = "done"
  /\ UNCHANGED <<app, simVars, alt1, alt2, p1, p2, bp1, bp0, antoineIn, args, result>>

NextAntoine == SolveAntoine

SpecAntoine == InitAntoine /\ [][NextAntoine]_vars


(***************************************************************************)
(* solveAntoineEquation called on water's coefficients with various        *)
(* verified ranges                                                         *)
(***************************************************************************)
\* the Antoine temperature of water at sea-level pressure: a bound equal to it
SeaLevelAntoine ==
  solveAntoineEquation(STANDARD_PRESSURE, Some(WaterAntoine))[1].temperature

\* Pa: sea level, 1000 mmHg, the 11 km pressure, 10 mmHg, 3 mmHg
RangePressures == AntoinePressures \cup {400}

\* TminC / TmaxC: a number, null, or the field left out
RangeInputs ==
  { <<pa, Some([WaterAntoine EXCEPT !.TminC = lo, !.TmaxC = hi])>> :
      pa \in RangePressures,
      lo \in {Celsius(1, 0), SeaLevelAntoine, Null, Undefined},
      hi \in {Celsius(100, 0), SeaLevelAntoine, Null, Undefined} }

InitRange ==
  /\ SimIdle
  /\ alt1 = 0 /\ alt2 = 0 /\ p1 = 0 /\ p2 = 0
  /\ bp1 = Absent /\ bp0 = Absent
  /\ antoineIn \in RangeInputs
  /\ antoineOut = Absent
  /\ phase = "ready"
  /\ args = <<>> /\ result = <<>>

SpecRange == InitRange /\ [][NextAntoine]_vars

(***************************************************************************)
(* calculateBoilingPoint called on an altitude and a substance             *)
(***************************************************************************)
\* log10 of the sea-level pressure in mmHg: an A that zeroes the denominator
SeaLevelLogP == Math_log10(Over(STANDARD_PRESSURE, 133322, 10^6), 10^3)

\* substances as a substance file can give them, and no substance at all
ResolverSubstances ==
  { Absent, Some(Water), Some(PlainWater), Some(Saltwater), Some(Glycerin),
    Some([Water EXCEPT !.boilingPointSeaLevel = Undefined]),
    Some([Water EXCEPT !.boilingPointSeaLevel = Null]),
    Some([Water EXCEPT !.boilingPointSeaLevel = NaN]),
    Some([Saltwater EXCEPT !.boilingPointSeaLevel = Undefined]),
    Some([Water EXCEPT !.altitudeLapseRate = Undefined]),
    Some([Water EXCEPT
            !.antoineCoefficients = Some([WaterAntoine EXCEPT !.A = Undefined])]),
    Some([Water EXCEPT
            !.antoineCoefficients = Some([WaterAntoine EXCEPT !.A = SeaLevelLogP])]),
    Some([Water EXCEPT
            !.antoineCoefficients = Some([WaterAntoine EXCEPT !.B = PosInf])]) }

InitResolve ==
  /\ SimIdle
  /\ alt1 = 0 /\ alt2 = 0 /\ p1 = 0 /\ p2 = 0
  /\ bp1 = Absent /\ bp0 = Absent
  /\ antoineIn = <<0, Absent>> /\ antoineOut = Absent
  /\ phase = "ready"
  /\ args \in Altitudes \X ResolverSubstances
  /\ result = <<>>

Resolve ==
  /\ phase = "ready"
  /\ result' = calculateBoilingPoint(args[1], args[2])
  /\ phase' = "done"
  /\ UNCHANGED <<app, simVars, alt1, alt2, p1, p2, bp1, bp0, antoineIn, antoineOut,
                 args>>

NextResolve == Resolve

SpecResolve == InitResolve /\ [][NextResolve]_vars

(***************************************************************************)
(* calculateBoilingPointElevation called on a base boiling point and a     *)
(* solution's vanHoffFactor, molality and static boilingPointElevation     *)
(***************************************************************************)
\* degC
ElevationBases == {Celsius(100, 0), Celsius(94, 60000), Celsius(66, 0), 0}

\* vanHoffFactor and molality at SoluteScale; a field can be missing, null,
\* NaN or Infinity
ElevationFactors == {1900, 1000, 0, Undefined, Null, NaN, PosInf}

ElevationMolalities == {530, 2000, 0, Undefined, NaN}

\* the static field, degC
ElevationStatics == {Celsius(0, 50000), 0, Undefined, Null, NaN}

InitElevation ==
  /\ SimIdle
  /\ alt1 = 0 /\ alt2 = 0 /\ p1 = 0 /\ p2 = 0
  /\ bp1 = Absent /\ bp0 = Absent
  /\ antoineIn = <<0, Absent>> /\ antoineOut = Absent
  /\ phase = "ready"
  /\ args \in ElevationBases \X ElevationFactors \X ElevationMolalities
               \X ElevationStatics
  /\ result = <<>>

Elevate ==
  /\ phase = "ready"
  /\ result' =
       calculateBoilingPointElevation(
         args[1], Some([Water EXCEPT !.vanHoffFactor = args[2],
                                     !.molality = args[3],
                                     !.boilingPointElevation = args[4]]))
  /\ phase' = "done"
  /\ UNCHANGED <<app, simVars, alt1, alt2, p1, p2, bp1, bp0, antoineIn, antoineOut,
                 args>>

NextElevation == Elevate

SpecElevation == InitElevation /\ [][NextElevation]_vars

(***************************************************************************)
(* JavaScript numbers where the last bit matters: IEEE 754 binary64 with   *)
(* round-to-nearest-even.  A natural of any size is a little-endian        *)
(* sequence of limbs below Base with no zero limb on top; a double is      *)
(* sign * sig * 2^exp with sig of exactly Precision bits (or 0).           *)
(* Infinities, NaN and subnormals are outside the values used here.        *)
(***************************************************************************)
LimbBits  == 15
Base      == 2^LimbBits
Precision == 53

Limb(a, i) == IF i \in DOMAIN a THEN a[i] ELSE 0

\* a without the zero limbs on top
Strip(a) ==
  LET nonzero == {i \in DOMAIN a : a[i] # 0}
  IN  IF nonzero = {} THEN <<>>
      ELSE SubSeq(a, 1, CHOOSE i \in nonzero : \A j \in nonzero : j <= i)

\* the natural sum of cols[i] * Base^(i-1), for column values below Base^2:
\* each column hands its high part to the next, and a carry runs through a
\* stretch of columns that are full
Carry(cols) ==
  LET column(i) == (Limb(cols, i) % Base) + (Limb(cols, i - 1) \div Base)
      carryInto(i) ==
        \E j \in 1..(i - 1) :
          /\ column(j) >= Base
          /\ \A l \in (j + 1)..(i - 1) : column(l) = Base - 1
  IN  Strip([i \in 1..(Len(cols) + 2) |->
               (column(i) + IF carryInto(i) THEN 1 ELSE 0) % Base])

FromNat(n) == Strip(<<n % Base, (n \div Base) % Base, n \div (Base * Base)>>)

BigAdd(a, b) ==
  Carry([i \in 1..(IF Len(a) > Len(b) THEN Len(a) ELSE Len(b)) |->
           Limb(a, i) + Limb(b, i)])

\* a - b for a >= b: a borrow runs through a stretch of equal limbs
BigSub(a, b) ==
  LET difference(i) == Limb(a, i) - Limb(b, i)
      borrowFrom(i) ==
        \E j \in 1..(i - 1) :
          /\ difference(j) < 0
          /\ \A l \in (j + 1)..(i - 1) : difference(l) = 0
  IN  Strip([i \in 1..Len(a) |->
               (difference(i) - (IF borrowFrom(i) THEN 1 ELSE 0) + Base) % Base])

\* -1, 0 or 1 as a is below, equal to or above b
BigCmp(a, b) ==
  IF Len(a) # Len(b) THEN (IF Len(a) < Len(b) THEN -1 ELSE 1)
  ELSE IF \A i \in 1..Len(a) : a[i] = b[i] THEN 0
  ELSE LET top == CHOOSE i \in 1..Len(a) :
                    /\ a[i] # b[i]
                    /\ \A l \in (i + 1)..Len(a) : a[l] = b[l]
       IN  IF a[top] < b[top] THEN -1 ELSE 1

\* a * k for k up to Base
BigMulSmall(a, k) == Carry([i \in 1..Len(a) |-> a[i] * k])

\* a * b for b of up to four limbs: the partial products added column by column
BigMul(a, b) ==
  Bind(<<BigMulSmall(a, Limb(b, 1)), BigMulSmall(a, Limb(b, 2)),
         BigMulSmall(a, Limb(b, 3)), BigMulSmall(a, Limb(b, 4))>>,
       LAMBDA partial :
    Carry([i \in 1..(Len(a) + 4) |->
             Limb(partial[1], i) + Limb(partial[2], i - 1)
               + Limb(partial[3], i - 2) + Limb(partial[4], i - 3)]))

\* a * 2^k
ShiftLeft(a, k) ==
  IF a = <<>> THEN a
  ELSE [i \in 1..(k \div LimbBits) |-> 0] \o BigMulSmall(a, 2^(k % LimbBits))

\* a \div 2^k
ShiftRight(a, k) ==
  LET limbs == k \div LimbBits
      bits  == k % LimbBits
  IN  Strip([i \in 1..(Len(a) - limbs) |->
               (Limb(a, i + limbs) \div 2^bits)
                 + (Limb(a, i + limbs + 1) % 2^bits) * 2^(LimbBits - bits)])

BitLen(a) ==
  IF a = <<>> THEN 0
  ELSE (Len(a) - 1) * LimbBits
         + (CHOOSE n \in 1..LimbBits : 2^(n-1) <= a[Len(a)] /\ a[Len(a)] < 2^n)

IsOdd(a) == a # <<>> /\ a[1] % 2 = 1

Zero64 == [sign |-> 1, exp |-> 0, sig |-> <<>>]

\* sign * m * 2^exp rounded to the nearest double, ties to even
Round64(sign, exp, m) ==
  IF m = <<>> THEN Zero64
  ELSE Bind(BitLen(m), LAMBDA n :
    IF n <= Precision
      THEN [sign |-> sign, exp |-> exp - (Precision - n),
            sig |-> ShiftLeft(m, Precision - n)]
      ELSE Bind(ShiftRight(m, n - Precision), LAMBDA top :
        LET k      == n - Precision
            guard  == IsOdd(ShiftRight(m, k - 1))
            sticky == ShiftLeft(ShiftRight(m, k - 1), k - 1) # m
        IN  Bind(IF guard /\ (sticky \/ IsOdd(top)) THEN BigAdd(top, <<1>>) ELSE top,
                 LAMBDA r :
              IF BitLen(r) > Precision
                THEN [sign |-> sign, exp |-> exp + k + 1, sig |-> ShiftRight(r, 1)]
                ELSE [sign |-> sign, exp |-> exp + k, sig |-> r])))

FromInt(n) == Round64(IF n < 0 THEN -1 ELSE 1, 0, FromNat(IF n < 0 THEN -n ELSE n))

Neg64(x) == IF x.sig = <<>> THEN x ELSE [x EXCEPT !.sign = -x.sign]

Abs64(x) == [x EXCEPT !.sign = 1]

Mul64(x, y) ==
  IF x.sig = <<>> \/ y.sig = <<>> THEN Zero64
  ELSE Round64(x.sign * y.sign, x.exp + y.exp, BigMul(x.sig, y.sig))

\* the quotient is worked out in four digits of DigitBits bits
DigitBits == 14

\* the bits of a above the lowest Precision - LimbBits, as an integer
TopBits(a) ==
  Bind(ShiftRight(a, Precision - LimbBits), LAMBDA top :
    Limb(top, 1) + Limb(top, 2) * Base)

\* the digit d with d * den <= rem < (d + 1) * den, for rem < den * 2^DigitBits
\* and den of Precision bits: estimated from the top bits, then made exact
QuotientDigit(rem, den) ==
  Bind(TopBits(rem) \div (TopBits(den) + 1), LAMBDA low :
    CHOOSE d \in low..(low + 4) :
      /\ BigCmp(BigMulSmall(den, d), rem) <= 0
      /\ BigCmp(BigMulSmall(den, d + 1), rem) > 0)

\* one more digit of the quotient: qr = <<quotient so far, what is left>>
DivStep(qr, den) ==
  Bind(BigMulSmall(qr[2], 2^DigitBits), LAMBDA scaled :
    Bind(QuotientDigit(scaled, den), LAMBDA d :
      <<BigAdd(BigMulSmall(qr[1], 2^DigitBits), FromNat(d)),
        BigSub(scaled, BigMulSmall(den, d))>>))

\* <<x.sig * 2^(4 * DigitBits) \div y.sig, the remainder>>
QuotientBits(x, y) ==
  Bind(IF BigCmp(x.sig, y.sig) >= 0 THEN <<<<1>>, BigSub(x.sig, y.sig)>>
       ELSE <<<<>>, x.sig>>, LAMBDA q0 :
    Bind(DivStep(q0, y.sig), LAMBDA q1 :
      Bind(DivStep(q1, y.sig), LAMBDA q2 :
        Bind(DivStep(q2, y.sig), LAMBDA q3 :
          DivStep(q3, y.sig)))))

\* x / y for y # 0: the quotient with three bits more than a double holds
\* and a sticky bit, rounded
Div64(x, y) ==
  IF x.sig = <<>> THEN Zero64
  ELSE Bind(QuotientBits(x, y), LAMBDA qr :
         Round64(x.sign * y.sign, x.exp - y.exp - 4 * DigitBits - 1,
                 BigAdd(BigAdd(qr[1], qr[1]), IF qr[2] = <<>> THEN <<>> ELSE <<1>>)))

\* sign * (a - b) * 2^exp for naturals a, b
RoundDifference(sign, exp, a, b) ==
  IF BigCmp(a, b) >= 0 THEN Round64(sign, exp, BigSub(a, b))
  ELSE Round64(-sign, exp, BigSub(b, a))

Add64(x, y) ==
  IF x.sig = <<>> THEN y
  ELSE IF y.sig = <<>> THEN x
  ELSE Bind(IF x.exp < y.exp THEN x.exp ELSE y.exp, LAMBDA e :
         IF x.sign = y.sign
           THEN Round64(x.sign, e, BigAdd(ShiftLeft(x.sig, x.exp - e),
                                          ShiftLeft(y.sig, y.exp - e)))
           ELSE RoundDifference(x.sign, e, ShiftLeft(x.sig, x.exp - e),
                                ShiftLeft(y.sig, y.exp - e)))

Sub64(x, y) == Add64(x, Neg64(y))

Lt64(x, y) == Sub64(x, y).sign = -1

Le64(x, y) == ~Lt64(y, x)

\* the double a decimal literal n / 10^d denotes
Decimal(n, d) == Div64(FromInt(n), FromInt(10^d))

(***************************************************************************)
(* The unit helpers on doubles: App.jsx 465-479 (physics module) and the   *)
(* second copy in the units module                                         *)
(***************************************************************************)
\* (celsius * 9/5) + 32, evaluated left to right
celsiusToFahrenheit(celsius) ==
  Bind(Mul64(celsius, FromInt(9)), LAMBDA times9 :
    Bind(Div64(times9, FromInt(5)), LAMBDA over5 :
      Add64(over5, FromInt(32))))

\* faulty variant: fahrenheit - 32 * 5/9
fahrenheitToCelsius_unparenthesised(fahrenheit) ==
  Sub64(fahrenheit, Div64(Mul64(FromInt(32), FromInt(5)), FromInt(9)))

\* (fahrenheit - 32) * 5/9
fahrenheitToCelsius(fahrenheit) ==
  Bind(Sub64(fahrenheit, FromInt(32)), LAMBDA less32 :
    Bind(Mul64(less32, FromInt(5)), LAMBDA times5 :
      Div64(times5, FromInt(9))))

\* (celsius * 9 / 5) + 32
Units_celsiusToFahrenheit(celsius) ==
  Bind(Mul64(celsius, FromInt(9)), LAMBDA times9 :
    Bind(Div64(times9, FromInt(5)), LAMBDA over5 :
      Add64(over5, FromInt(32))))

\* (fahrenheit - 32) * 5 / 9
Units_fahrenheitToCelsius(fahrenheit) ==
  Bind(Sub64(fahrenheit, FromInt(32)), LAMBDA less32 :
    Bind(Mul64(less32, FromInt(5)), LAMBDA times5 :
      Div64(times5, FromInt(9))))

(***************************************************************************)
(* calculateHeatingEnergy and applyHeatEnergy on doubles, for a substance  *)
(* with finite specificHeat and heatOfVaporization and a finite boiling    *)
(* point                                                                   *)
(***************************************************************************)
\* faulty variant: the mass is not converted to grams
calculateHeatingEnergy64_kilograms(mass, tempStart, tempEnd, specificHeat) ==
  Mul64(Mul64(mass, specificHeat), Sub64(tempEnd, tempStart))

\* massGrams * fluidProps.specificHeat * deltaT
calculateHeatingEnergy64(mass, tempStart, tempEnd, specificHeat) ==
  Mul64(Mul64(Mul64(mass, FromInt(1000)), specificHeat), Sub64(tempEnd, tempStart))

\* faulty variant: the steam is not floored
Math_max0_unfloored(x) == x

\* Math.max(0, x) on doubles
Math_max0(x) == IF Lt64(x, Zero64) THEN Zero64 ELSE x

\* applyHeatEnergy on doubles, for finite arguments and a substance with a
\* finite specificHeat # 0 and a finite heatOfVaporization
applyHeatEnergy64(mass, currentTemp, energyJoules, boilingPoint, specificHeat, heatOfVaporization) ==
  IF Le64(mass, Zero64)
    THEN [newTemp |-> currentTemp, energyToVaporization |-> Zero64,
          steamGenerated |-> Zero64]
    ELSE
      Bind(Add64(currentTemp,
                 Div64(energyJoules,
                       Mul64(Mul64(mass, FromInt(1000)), specificHeat))),
           LAMBDA potentialNewTemp :
        IF ~Lt64(Zero64, heatOfVaporization) \/ Lt64(potentialNewTemp, boilingPoint)
          THEN [newTemp |-> potentialNewTemp, energyToVaporization |-> Zero64,
                steamGenerated |-> Zero64]
          ELSE
            Bind(Sub64(energyJoules,
                       calculateHeatingEnergy64(mass, currentTemp, boilingPoint,
                                                specificHeat)),
                 LAMBDA remainingEnergy :
              Bind(Div64(remainingEnergy, Mul64(heatOfVaporization, FromInt(1000))),
                   LAMBDA steamGenerated :
                [newTemp |-> boilingPoint,
                 energyToVaporization |-> remainingEnergy,
                 steamGenerated |-> Math_max0(steamGenerated)])))

(***************************************************************************)
(* applyHeatEnergy called on its own                                       *)
(***************************************************************************)
\* kg at MassScale: nothing, a negative mass, 5 g, 1 kg
HeatMasses == {0, -Grams(5), Grams(5), Grams(1000)}

HeatTemps == {Celsius(20, 0), Celsius(100, 0), Celsius(120, 0)}

\* J at EScale: none, 1 kJ, 100 kJ
HeatEnergies == {0, 1000 * EScale, 100000 * EScale}

\* degC; null when the resolver had no data, Infinity from degenerate data
HeatBoilingPoints == {Celsius(100, 0), Celsius(78, 37000), Null, PosInf}

HeatSubstances ==
  { Absent, Some(Water), Some(Saltwater), Some(Glycerin), Some(NoSpecificHeat),
    Some([Water EXCEPT !.specificHeat = NaN]),
    Some([Water EXCEPT !.specificHeat = PosInf]),
    Some(NoVaporization), Some(ZeroHeatNoVaporization),
    Some([Water EXCEPT !.heatOfVaporization = 0]),
    Some([Water EXCEPT !.heatOfVaporization = -2257]),
    Some([Water EXCEPT !.heatOfVaporization = PosInf]) }

InitHeat ==
  /\ SimIdle
  /\ alt1 = 0 /\ alt2 = 0 /\ p1 = 0 /\ p2 = 0
  /\ bp1 = Absent /\ bp0 = Absent
  /\ antoineIn = <<0, Absent>> /\ antoineOut = Absent
  /\ phase = "ready"
  /\ args \in HeatMasses \X HeatTemps \X HeatEnergies \X HeatBoilingPoints
               \X HeatSubstances
  /\ result = <<>>

ApplyHeat ==
  /\ phase = "ready"
  /\ result' = applyHeatEnergy(args[1], args[2], args[3], args[4], args[5])
  /\ phase' = "done"
  /\ UNCHANGED <<app, simVars, alt1, alt2, p1, p2, bp1, bp0, antoineIn, antoineOut,
                 args>>

NextHeat == ApplyHeat

SpecHeat == InitHeat /\ [][NextHeat]_vars

(***************************************************************************)
(* The unit helpers called on a temperature and on each other's result     *)
(***************************************************************************)
\* decimal literals <<n, d>> = n / 10^d: whole degrees, and some with a
\* fraction
UnitTemperatures ==
  { <<n, 0>> : n \in -40..60 }
    \cup { <<986, 1>>, <<-27315, 2>>, <<-497, 1>>, <<1249, 1>>, <<20001, 3>>,
           <<1000000, 0>> }

InitUnits ==
  /\ SimIdle
  /\ alt1 = 0 /\ alt2 = 0 /\ p1 = 0 /\ p2 = 0
  /\ bp1 = Absent /\ bp0 = Absent
  /\ antoineIn = <<0, Absent>> /\ antoineOut = Absent
  /\ phase = "ready"
  /\ args \in {"physics", "units"} \X UnitTemperatures
  /\ result = <<>>

RoundTrip ==
  /\ phase = "ready"
  /\ result' =
       Bind(Decimal(args[2][1], args[2][2]), LAMBDA x :
         [x |-> x,
          back |-> IF args[1] = "physics"
                     THEN fahrenheitToCelsius(celsiusToFahrenheit(x))
                     ELSE Units_fahrenheitToCelsius(Units_celsiusToFahrenheit(x))])
  /\ phase' = "done"
  /\ UNCHANGED <<app, simVars, alt1, alt2, p1, p2, bp1, bp0, antoineIn, antoineOut,
                 args>>

NextUnits == RoundTrip

SpecUnits == InitUnits /\ [][NextUnits]_vars

(***************************************************************************)
(* applyHeatEnergy given exactly the energy calculateHeatingEnergy returns *)
(* for reaching the boiling point                                          *)
(***************************************************************************)
\* decimal literals <<n, d>>: kg; degC; degC; J/(g*degC)
ThresholdMasses == {<<1, 0>>, <<5, 1>>, <<5, 3>>, <<3, 1>>}

ThresholdTemps == {<<20, 0>>, <<5, 0>>, <<20001, 3>>, <<60, 0>>, <<7837, 2>>}

ThresholdBoilingPoints == {<<100, 0>>, <<999966, 4>>, <<946, 1>>, <<7837, 2>>}

ThresholdSpecificHeats == {<<4186, 3>>, <<3993, 3>>, <<243, 2>>}

InitThreshold ==
  /\ SimIdle
  /\ alt1 = 0 /\ alt2 = 0 /\ p1 = 0 /\ p2 = 0
  /\ bp1 = Absent /\ bp0 = Absent
  /\ antoineIn = <<0, Absent>> /\ antoineOut = Absent
  /\ phase = "ready"
  /\ args \in ThresholdMasses \X ThresholdTemps \X ThresholdBoilingPoints
               \X ThresholdSpecificHeats
  /\ result = <<>>

\* the caller computes Q = m c deltaT and hands it to applyHeatEnergy
HeatToThreshold ==
  /\ phase = "ready"
  /\ result' =
       LET mass         == Decimal(args[1][1], args[1][2])
           currentTemp  == Decimal(args[2][1], args[2][2])
           boilingPoint == Decimal(args[3][1], args[3][2])
           specificHeat == Decimal(args[4][1], args[4][2])
       IN  Bind(calculateHeatingEnergy64(mass, currentTemp, boilingPoint,
                                         specificHeat),
                LAMBDA energy :
             [currentTemp  |-> currentTemp,
              boilingPoint |-> boilingPoint,
              energy |-> energy,
              out |-> applyHeatEnergy64(mass, currentTemp, energy, boilingPoint,
                                        specificHeat, FromInt(2257))])
  /\ phase' = "done"
  /\ UNCHANGED <<app, simVars, alt1, alt2, p1, p2, bp1, bp0, antoineIn, antoineOut,
                 args>>

NextThreshold == HeatToThreshold

SpecThreshold == InitThreshold /\ [][NextThreshold]_vars

(***************************************************************************)
(* applyHeatEnergy given an energy at, just below, just above and well     *)
(* above the energy that reaches the boiling point                         *)
(***************************************************************************)
\* the double 2^e
TwoTo(e) == [sign |-> 1, exp |-> e - (Precision - 1), sig |-> FromInt(1).sig]

\* energyJoules as a multiple of calculateHeatingEnergy's result: the largest
\* double below 1, 1, the smallest double above 1, and 2
EnergyFactor(f) ==
  CASE f = "below"  -> Sub64(FromInt(1), TwoTo(-Precision))
    [] f = "exact"  -> FromInt(1)
    [] f = "above"  -> Add64(FromInt(1), TwoTo(1 - Precision))
    [] f = "double" -> FromInt(2)

InitPhase ==
  /\ SimIdle
  /\ alt1 = 0 /\ alt2 = 0 /\ p1 = 0 /\ p2 = 0
  /\ bp1 = Absent /\ bp0 = Absent
  /\ antoineIn = <<0, Absent>> /\ antoineOut = Absent
  /\ phase = "ready"
  /\ args \in ThresholdMasses \X ThresholdTemps \X ThresholdBoilingPoints
               \X ThresholdSpecificHeats \X {"below", "exact", "above", "double"}
  /\ result = <<>>

HeatAroundThreshold ==
  /\ phase = "ready"
  /\ result' =
       LET mass         == Decimal(args[1][1], args[1][2])
           currentTemp  == Decimal(args[2][1], args[2][2])
           boilingPoint == Decimal(args[3][1], args[3][2])
           specificHeat == Decimal(args[4][1], args[4][2])
       IN  Bind(Mul64(calculateHeatingEnergy64(mass, currentTemp, boilingPoint,
                                               specificHeat),
                      EnergyFactor(args[5])),
                LAMBDA energy :
             [mass         |-> mass,
              currentTemp  |-> currentTemp,
              boilingPoint |-> boilingPoint,
              specificHeat |-> specificHeat,
              heatOfVaporization |-> FromInt(2257),
              energy |-> energy,
              out |-> applyHeatEnergy64(mass, currentTemp, energy, boilingPoint,
                                        specificHeat, FromInt(2257))])
  /\ phase' = "done"
  /\ UNCHANGED <<app, simVars, alt1, alt2, p1, p2, bp1, bp0, antoineIn, antoineOut,
                 args>>

NextPhase == HeatAroundThreshold

SpecPhase == InitPhase /\ [][NextPhase]_vars

(***************************************************************************)
(* The App component from its first render on                              *)
(***************************************************************************)
InitApp ==
  /\ SimIdle
  /\ alt1 = 0 /\ alt2 = 0 /\ p1 = 0 /\ p2 = 0
  /\ bp1 = Absent /\ bp0 = Absent
  /\ antoineIn = <<0, Absent>> /\ antoineOut = Absent
  /\ phase = "idle"
  /\ args = <<>> /\ result = <<>>

\* the two mount effects, run one after the other when the first render is
\* committed: loadAppTheme() runs up to its await, then setUserLocation
RunEffects ==
  /\ app.effects = "pending"
  /\ app' = [app EXCEPT !.effects = "done", !.theme = "pending",
                        !.userLocation = Some([altitude |-> 0, latitude |-> 0,
                                               longitude |-> 0])]
  /\ UNCHANGED <<simVars, pureVars>>

\* initializeTheme's promise is fulfilled: the function resumes after the await
ThemeResolves ==
  /\ app.theme = "pending"
  /\ app' = [app EXCEPT !.themeLoaded = TRUE, !.theme = "applied"]
  /\ UNCHANGED <<simVars, pureVars>>

\* initializeTheme's promise is rejected: the catch block runs
ThemeRejects ==
  /\ app.theme = "pending"
  /\ app' = ThemeFailed(app)
  /\ UNCHANGED <<simVars, pureVars>>

\* React renders the component again after a state change
Render ==
  /\ app.rendered # RenderApp(app)
  /\ app' = [app EXCEPT !.rendered = RenderApp(app)]
  /\ UNCHANGED <<simVars, pureVars>>

\* GameScene, once on screen, calls onStageChange (setGameStage)
StageChange ==
  /\ app.rendered.gameScene # Absent
  /\ \E stage \in 0..MaxStage : app' = [app EXCEPT !.gameStage = stage]
  /\ UNCHANGED <<simVars, pureVars>>

NextApp == RunEffects \/ ThemeResolves \/ ThemeRejects \/ Render \/ StageChange

SpecApp == InitApp /\ [][NextApp]_vars

\* the effects run, a render that is due happens, and the promise is settled
\* one way or the other
SpecAppLive ==
  /\ SpecApp
  /\ WF_vars(RunEffects)
  /\ WF_vars(ThemeResolves \/ ThemeRejects)
  /\ WF_vars(Render)

(***************************************************************************)
(* Properties of the simulation loop (Spec)                                *)
(***************************************************************************)
\* C1: over ticks whose result is the next tick's input, from a state with
\* fluid mass >= residue mass >= 0, every returned state has a fluid mass
\* that is at least the residue mass, and no tick increases the fluid mass.
C1_MassBoundedByResidueAndNeverGrows ==
  op = "tick" =>
    /\ Number_isFinite(state.waterMass)
    /\ state.waterMass >= ResidueMass(state)
    /\ state.waterMass <= prev.waterMass

\* a boiling tick that evaporated down to a positive residue
C1_Witness ==
  /\ op = "tick"
  /\ state.waterMass < prev.waterMass
  /\ state.waterMass = ResidueMass(state)
  /\ ResidueMass(state) > 0
  /\ state.steamGenerated > 0

\* the latest step was a tick of pure cooling: burner off, a substance with a
\* positive cooling coefficient, evaporable mass, and a temperature >= ambient
CoolingTick ==
  /\ op = "tick"
  /\ input.fluid # Absent
  /\ input.heat <= 0
  /\ input.dt > 0
  /\ Gt(input.fluid[1].coolingCoefficient, 0)
  /\ Gt(EvaporableMass(prev.waterMass, ResidueMass(prev)), 0)
  /\ Ge(prev.temperature, AMBIENT_TEMP)

\* the decrement k * (T - ambient) * deltaTime is at least one step of the
\* grid of representable temperatures
CoolingStepRepresentable ==
  prev.temperature - AMBIENT_TEMP >
    (CoolScale * TimeScale) \div (input.fluid[1].coolingCoefficient * input.dt)

NoEvaporableMass(s) == Le(s.waterMass, 0) \/ s.waterMass = ResidueMass(s)

\* C3: a tick on a state with no evaporable mass returns allEvaporated == true
\* whatever the heat input and the tick duration and whether or not a
\* substance is supplied, and leaves fluid mass and temperature as they were.
C3_TerminalGuardComesFirst ==
  op = "tick" /\ NoEvaporableMass(prev) =>
    /\ state.allEvaporated = "true"
    /\ state.waterMass = prev.waterMass
    /\ state.temperature = prev.temperature

\* a heated tick without a substance on a state that is all residue
C3_Witness ==
  /\ op = "tick"
  /\ prev.waterMass = ResidueMass(prev)
  /\ prev.waterMass > 0
  /\ input.fluid = Absent
  /\ input.heat > 0
  /\ state.allEvaporated = "true"

\* C4: once a returned state has allEvaporated == true, every later tick on
\* it returns allEvaporated == true with the fluid mass equal to the residue
\* mass and unchanged; only a reset by the caller leaves that state.
C4_DepletedIsAbsorbing ==
  [][state.allEvaporated = "true" =>
       \/ op' = "reset"
       \/ /\ op' = "tick"
          /\ state'.allEvaporated = "true"
          /\ state'.waterMass = ResidueMass(state')
          /\ state'.waterMass = state.waterMass]_vars

\* a heated tick with a substance on a state already flagged as depleted
C4_Witness ==
  /\ op = "tick"
  /\ prev.allEvaporated = "true"
  /\ state.allEvaporated = "true"
  /\ input.heat > 0
  /\ input.fluid # Absent
  /\ state.waterMass > 0

(***************************************************************************)
(* Properties of the end-to-end heating scenario (SpecScenario)            *)
(***************************************************************************)
\* the boiling point of the scenario's substance at sea level
ScenarioBoilingPoint == calculateBoilingPoint(0, input.fluid)[1].temperature

C6_PressureMonotone ==
  phase = "done" /\ Number_isFinite(alt1) /\ Number_isFinite(alt2) =>
    /\ (0 <= alt1 /\ alt1 <= alt2 => Ge(p1, p2))
    /\ (alt1 = 0 => p1 = STANDARD_PRESSURE)

\* C7 (as claimed): for every altitude above 11000 m the pressure equals the
\* pressure at exactly 11000 m.
C7_PlateauAbove11km ==
  phase = "done" /\ alt1 = 11000 /\ Number_isFinite(alt2) /\ alt2 > 11000 =>
    p2 = p1

\* C8 (as claimed): for a null, undefined, NaN, +Infinity or -Infinity
\* altitude the pressure is the sea-level pressure 101325 Pa and the boiling
\* point result is the one of altitude 0.
C8_NonFiniteAltitudeIsSeaLevel ==
  phase = "done" /\ alt1 \in {Null, Undefined, NaN, PosInf, NegInf} =>
    p1 = STANDARD_PRESSURE /\ bp1 = bp0

(***************************************************************************)
(* Property of the loop over degenerate substances (SpecDegenerate)        *)
(***************************************************************************)
\* C9 (as claimed): a tick on a state with finite temperature and mass and
\* evaporable mass > 0, with a substance whose coolingCoefficient,
\* specificHeat or heatOfVaporization is missing (or whose specificHeat is
\* 0), returns a finite temperature and a finite fluid mass.
C9_DegenerateDataStaysFinite ==
  /\ op = "tick"
  /\ input.fluid # Absent
  /\ Number_isFinite(prev.temperature)
  /\ Number_isFinite(prev.waterMass)
  /\ Gt(EvaporableMass(prev.waterMass, ResidueMass(prev)), 0)
  => Number_isFinite(state.temperature) /\ Number_isFinite(state.waterMass)

(***************************************************************************)
(* Property of solveAntoineEquation (SpecAntoine)                          *)
(***************************************************************************)
\* zero or missing (null, or the field left out)
ZeroOrMissing(x) == x \in {0, Null, Undefined}

C12_NullExactlyWithoutSeaLevelBoilingPoint ==
  phase = "done" =>
    (result = Absent <=>
       \/ args[2] = Absent
       \/ ~Number_isFinite(args[2][1].boilingPointSeaLevel))

\* water's valid coefficients but no boilingPointSeaLevel: null
C12_Witness ==
  /\ phase = "done"
  /\ args[2] # Absent
  /\ args[2][1].antoineCoefficients = Some(WaterAntoine)
  /\ args[2][1].boilingPointSeaLevel = Undefined
  /\ solveAntoineEquation(calculatePressure(AltitudeOrSeaLevel(args[1])),
                          Some(WaterAntoine)) # Absent
  /\ result = Absent

\* the Antoine solve the resolver makes for its arguments (null without
\* coefficients)
ResolverAntoine ==
  IF args[2][1].antoineCoefficients = Absent THEN Absent
  ELSE solveAntoineEquation(calculatePressure(AltitudeOrSeaLevel(args[1])),
                            args[2][1].antoineCoefficients)

\* boilingPointSeaLevel - altitude * lapseRate for the resolver's arguments
ResolverLinear ==
  LET fp == args[2][1]
      lapseRate == IF Number_isFinite(fp.altitudeLapseRate)
                     THEN fp.altitudeLapseRate ELSE TEMP_LAPSE_RATE
  IN  Minus(fp.boilingPointSeaLevel,
            Times(AltitudeOrSeaLevel(args[1]), lapseRate, LapseScale \div TScale))

\* C13: whenever coefficients are present and the Antoine solve yields a
\* finite temperature, the result is the Antoine one (baseBoilingPoint the
\* Antoine temperature, with its isExtrapolated flag and verified range);
\* the linear fallback (baseBoilingPoint = boilingPointSeaLevel -
\* altitude * lapseRate, isExtrapolated false, verifiedRange {null, null})
\* is returned only when the coefficients are absent or the solve gives null
\* or a non-finite temperature.
C13_AntoineFirstLinearSecond ==
  phase = "done" /\ result # Absent =>
    LET ar == ResolverAntoine
        out == result[1]
    IN  IF ar # Absent /\ Number_isFinite(ar[1].temperature)
          THEN /\ out.baseBoilingPoint = ar[1].temperature
               /\ out.isExtrapolated = ar[1].isExtrapolated
               /\ out.verifiedRange = ar[1].verifiedRange
          ELSE /\ out.baseBoilingPoint = ResolverLinear
               /\ out.isExtrapolated = FALSE
               /\ out.verifiedRange = [min |-> Null, max |-> Null]

\* water high up: the Antoine result, extrapolated, differing from the
\* linear one
C13_Witness ==
  /\ phase = "done"
  /\ args = <<8848, Some(Water)>>
  /\ result # Absent
  /\ result[1].baseBoilingPoint = ResolverAntoine[1].temperature
  /\ result[1].baseBoilingPoint # ResolverLinear
  /\ result[1].verifiedRange = [min |-> Celsius(1, 0), max |-> Celsius(100, 0)]

(***************************************************************************)
(* Properties of applyHeatEnergy (SpecHeat)                                *)
(***************************************************************************)
\* the specificHeat applyHeatEnergy reads from its fifth argument
ArgSpecificHeat ==
  IF args[5] = Absent THEN Undefined ELSE args[5][1].specificHeat

\* C14: if specificHeat is non-finite or missing, or mass <= 0, the call is
\* a no-op for every energy and boiling point: newTemp == currentTemp,
\* energyToVaporization == 0 and steamGenerated == 0.
C14_GuardIsNoOp ==
  phase = "done" /\ (~Number_isFinite(ArgSpecificHeat) \/ args[1] <= 0) =>
    result = [newTemp |-> args[2], energyToVaporization |-> 0,
              steamGenerated |-> 0]

\* no mass at all, energy to spare, water already above its boiling point
C14_Witness ==
  /\ phase = "done"
  /\ args[1] = 0
  /\ args[2] = Celsius(120, 0)
  /\ args[3] > 0
  /\ args[4] = Celsius(100, 0)
  /\ args[5] = Some(Water)
  /\ result.newTemp = Celsius(120, 0)
  /\ result.steamGenerated = 0

\* C15: for every mass > 0, every currentTemp, every boilingPoint and every
\* substance with finite specificHeat > 0, applyHeatEnergy with
\* energyJoules = 0 returns newTemp == currentTemp exactly and
\* steamGenerated == 0.
C15_ZeroEnergyNoChange ==
  /\ phase = "done"
  /\ args[1] > 0
  /\ args[3] = 0
  /\ Number_isFinite(ArgSpecificHeat) /\ ArgSpecificHeat > 0
  => /\ result.newTemp = args[2]
     /\ result.steamGenerated = 0

\* the heatOfVaporization applyHeatEnergy reads from its fifth argument
ArgHeatOfVaporization ==
  IF args[5] = Absent THEN Undefined ELSE args[5][1].heatOfVaporization

\* boiling is impossible: heatOfVaporization missing, non-finite or <= 0, or
\* boilingPoint not a finite number
BoilingImpossible ==
  \/ ~Number_isFinite(ArgHeatOfVaporization)
  \/ Le(ArgHeatOfVaporization, 0)
  \/ ~Number_isFinite(args[4])

\* currentTemp + energy / (mass*1000*specificHeat)
SensibleHeatTemp ==
  Plus(args[2],
       Over(args[3],
            Times(Times(args[1], 1000, 1000), ArgSpecificHeat,
                  ((MassScale \div 1000) * CpScale) \div McScale),
            (TScale * McScale) \div EScale))

\* C22 as stated: whenever boiling is impossible, applyHeatEnergy returns
\* newTemp == currentTemp + energy/(mass*1000*specificHeat) with
\* energyToVaporization == 0 and steamGenerated == 0.
C22_OvershootWhenBoilingImpossible ==
  phase = "done" /\ BoilingImpossible =>
    /\ result.newTemp = SensibleHeatTemp
    /\ result.energyToVaporization = 0
    /\ result.steamGenerated = 0

\* C22, amended: the same for the calls that pass the guard (specificHeat
\* finite and mass > 0); the other calls return currentTemp itself (C14).
C22_OvershootPastTheGuard ==
  /\ phase = "done" /\ BoilingImpossible
  /\ Number_isFinite(ArgSpecificHeat) /\ Gt(args[1], 0)
  => /\ result.newTemp = SensibleHeatTemp
     /\ result.energyToVaporization = 0
     /\ result.steamGenerated = 0

\* 5 g of water without vaporization data, 1 kJ: from 100 degC past the
\* nominal boiling point of 100 degC
C22_Witness ==
  /\ phase = "done"
  /\ args[1] = Grams(5) /\ args[2] = Celsius(100, 0) /\ args[3] = 1000 * EScale
  /\ args[4] = Celsius(100, 0)
  /\ args[5] = Some(NoVaporization)
  /\ result.newTemp > Celsius(147, 0) /\ result.newTemp < Celsius(148, 0)
  /\ result.steamGenerated = 0

(***************************************************************************)
(* Properties of the state a tick returns (Spec)                           *)
(***************************************************************************)
\* C17: simulateTimeStep with an absent substance object, on a state that
\* still has evaporable mass, returns a state equal to the input state in
\* every field (temperature, mass, residue, altitude and all flags), for
\* every heat input and deltaTime; no field is added or changed.
C17_AbsentSubstanceReturnsInput ==
  op = "tick" /\ input.fluid = Absent /\ ~NoEvaporableMass(prev) =>
    /\ state = prev
    /\ DOMAIN state = DOMAIN prev

\* a tick without a substance after a boiling tick, heat applied: the state
\* comes back as it was, flags included
C17_Witness ==
  /\ op = "tick"
  /\ input.fluid = Absent
  /\ input.heat > 0
  /\ ~NoEvaporableMass(prev)
  /\ prev.isBoiling = "true"
  /\ prev.steamGenerated > 0
  /\ state = prev

\* C19: in every state returned by simulateTimeStep over any sequence of
\* threaded ticks, isBoiling is true only if mass is leaving in that same
\* tick: the returned mass is strictly smaller than the input mass.
C19_BoilingOnlyWhileMassLeaves ==
  op = "tick" /\ state.isBoiling = "true" =>
    Lt(state.waterMass, prev.waterMass)

\* C20: the state returned by the tick in which the mass drops to the
\* residue has allEvaporated true: in every returned state allEvaporated is
\* true whenever the returned mass <= residue.
C20_EvaporatedFlagWhenFluidRunsOut ==
  op = "tick" /\ Le(state.waterMass, ResidueMass(state)) =>
    state.allEvaporated = "true"

(***************************************************************************)
(* Properties on doubles (SpecThreshold, SpecUnits)                        *)
(***************************************************************************)
\* 2^-50 * (|a| + |b|): a few units in the last place of a and b
Tolerance(a, b) ==
  Mul64([sign |-> 1, exp |-> -50 - (Precision - 1), sig |-> FromInt(1).sig],
        Add64(Abs64(a), Abs64(b)))

\* C16 as stated: for a boilable substance and currentTemp <= boilingPoint,
\* applyHeatEnergy given energy exactly mass*1000*specificHeat*(boilingPoint -
\* currentTemp) returns newTemp == boilingPoint, energyToVaporization == 0
\* and steamGenerated == 0.
C16_ExactlyAtBoilingPoint ==
  phase = "done" /\ Le64(result.currentTemp, result.boilingPoint) =>
    /\ result.out.newTemp = result.boilingPoint
    /\ result.out.energyToVaporization = Zero64
    /\ result.out.steamGenerated = Zero64

\* C16, amended: with that energy no steam is generated and no energy is
\* left for vaporization, and newTemp is boilingPoint or the double rounding
\* left just below it (within 2^-50 * (|currentTemp| + |boilingPoint|)).
C16_AtBoilingPointUpToRounding ==
  phase = "done" /\ Le64(result.currentTemp, result.boilingPoint) =>
    /\ result.out.energyToVaporization = Zero64
    /\ result.out.steamGenerated = Zero64
    /\ Le64(result.out.newTemp, result.boilingPoint)
    /\ Le64(Sub64(result.boilingPoint, result.out.newTemp),
            Tolerance(result.currentTemp, result.boilingPoint))

\* heated with the threshold energy and left one rounding step short
C16_Witness ==
  /\ phase = "done"
  /\ Lt64(result.currentTemp, result.boilingPoint)
  /\ Lt64(Zero64, result.energy)
  /\ Lt64(result.out.newTemp, result.boilingPoint)
  /\ Lt64(result.currentTemp, result.out.newTemp)
  /\ result.out.steamGenerated = Zero64

\* C18 as stated: fahrenheitToCelsius(celsiusToFahrenheit(x)) == x for every
\* finite x, for both copies of the helpers.
C18_RoundTripExact ==
  phase = "done" => result.back = result.x

\* C18, amended: the round trip returns x within floating-point tolerance,
\* |back - x| <= 2^-50 * (|x| + 32), for both copies of the helpers.
C18_RoundTripWithinTolerance ==
  phase = "done" =>
    Le64(Abs64(Sub64(result.back, result.x)), Tolerance(result.x, FromInt(32)))

\* 1 degC comes back as a double just below 1
C18_Witness ==
  /\ phase = "done"
  /\ args[2] = <<1, 0>>
  /\ result.x = FromInt(1)
  /\ Lt64(result.back, result.x)
  /\ Lt64(Decimal(999999, 6), result.back)


(***************************************************************************)
(* Properties of applyHeatEnergy's phase-change branch on doubles          *)
(* (SpecPhase)                                                             *)
(***************************************************************************)
\* the call of SpecPhase meets the conditions of C21: currentTemp <=
\* boilingPoint and currentTemp + energy / (mass*1000*specificHeat) >=
\* boilingPoint (the substance is boilable and specificHeat > 0 throughout)
PhaseChangeCase ==
  /\ phase = "done"
  /\ Le64(result.currentTemp, result.boilingPoint)
  /\ Le64(result.boilingPoint,
          Add64(result.currentTemp,
                Div64(result.energy,
                      Mul64(Mul64(result.mass, FromInt(1000)),
                            result.specificHeat))))

\* energy - mass*1000*specificHeat*(boilingPoint - currentTemp)
EnergyPastBoiling ==
  Sub64(result.energy,
        Mul64(Mul64(Mul64(result.mass, FromInt(1000)), result.specificHeat),
              Sub64(result.boilingPoint, result.currentTemp)))

\* C21 as stated: in the phase-change case newTemp is exactly boilingPoint,
\* energyToVaporization == energy - mass*1000*specificHeat*(boilingPoint -
\* currentTemp) >= 0, and steamGenerated == energyToVaporization /
\* (heatOfVaporization*1000) >= 0.
C21_PhaseChangeSplitsEnergy ==
  PhaseChangeCase =>
    /\ result.out.newTemp = result.boilingPoint
    /\ result.out.energyToVaporization = EnergyPastBoiling
    /\ Le64(Zero64, result.out.energyToVaporization)
    /\ result.out.steamGenerated =
         Div64(result.out.energyToVaporization,
               Mul64(result.heatOfVaporization, FromInt(1000)))
    /\ Le64(Zero64, result.out.steamGenerated)

\* C21, amended: newTemp is exactly boilingPoint; energyToVaporization ==
\* energy - mass*1000*specificHeat*(boilingPoint - currentTemp), which
\* rounding can leave below 0 by at most 2^-50 * mass*1000*specificHeat *
\* (|currentTemp| + |boilingPoint|); steamGenerated ==
\* max(0, energyToVaporization / (heatOfVaporization*1000)) >= 0.
C21_PhaseChangeSplitsEnergyUpToRounding ==
  PhaseChangeCase =>
    /\ result.out.newTemp = result.boilingPoint
    /\ result.out.energyToVaporization = EnergyPastBoiling
    /\ Le64(Neg64(Mul64(Mul64(Mul64(result.mass, FromInt(1000)),
                              result.specificHeat),
                        Mul64(TwoTo(-50),
                              Add64(Abs64(result.currentTemp),
                                    Abs64(result.boilingPoint))))),
            result.out.energyToVaporization)
    /\ result.out.steamGenerated =
         IF Lt64(result.out.energyToVaporization, Zero64) THEN Zero64
         ELSE Div64(result.out.energyToVaporization,
                    Mul64(result.heatOfVaporization, FromInt(1000)))
    /\ Le64(Zero64, result.out.steamGenerated)

\* twice the threshold energy: half of it goes into steam
C21_Witness ==
  /\ PhaseChangeCase
  /\ args[5] = "double"
  /\ Lt64(result.currentTemp, result.boilingPoint)
  /\ result.out.newTemp = result.boilingPoint
  /\ Lt64(Zero64, result.out.energyToVaporization)
  /\ Lt64(Zero64, result.out.steamGenerated)

\* an energy one rounding step short of the threshold still reaches the
\* boiling point, and the energy left over is negative
C21_RoundingCase ==
  /\ PhaseChangeCase
  /\ Lt64(result.out.energyToVaporization, Zero64)

(***************************************************************************)
(* Properties of a single tick (SpecTick)                                  *)
(***************************************************************************)
\* the latest step was a tick that went past the two early returns
PastTheGuards ==
  op = "tick" /\ input.fluid # Absent /\ ~NoEvaporableMass(prev)

\* the boiling point simulateTimeStep resolved in the latest tick
TickBoilingPoint ==
  LET r == calculateBoilingPoint(prev.altitude, input.fluid)
  IN  IF r = Absent THEN Null ELSE r[1].temperature

\* what applyHeatEnergy returns for the latest tick's energy
TickHeatResult ==
  applyHeatEnergy(prev.waterMass, prev.temperature,
                  Times(input.heat, input.dt, 1), TickBoilingPoint, input.fluid)

C23_CoolingCases ==
  \/ /\ PastTheGuards /\ input.heat < 0
     /\ prev.temperature = Celsius(60, 0)
     /\ state.temperature < prev.temperature
     /\ state.temperature >= AMBIENT_TEMP
  \/ /\ PastTheGuards /\ input.heat < 0
     /\ prev.temperature = Celsius(5, 0)
     /\ state.temperature = prev.temperature

(***************************************************************************)
(* Property of calculateBoilingPointElevation (SpecElevation)              *)
(***************************************************************************)
\* Kb = 8.314 * (baseBoilingPointC + 273.15)^2 * 0.018015 / 40660, at 10^6
WaterKb(baseBoilingPointC) ==
  LET Tb == Plus(baseBoilingPointC, Celsius(273, 15000))
  IN  Over(Times(Times(Times(8314, Tb, 10^3), Tb, 10^8), 18015, 10^4),
           40660, 100)

\* C24: when vanHoffFactor and molality are both finite the elevation is
\* vanHoffFactor * Kb * molality with Kb from water's constants, and the
\* static boilingPointElevation field is ignored; otherwise it is the static
\* field when that is finite, else 0.
C24_DynamicElevationElseStatic ==
  phase = "done" =>
    IF Number_isFinite(args[2]) /\ Number_isFinite(args[3])
      THEN result = Times(Times(args[2], WaterKb(args[1]), SoluteScale),
                          args[3], 10^4)
      ELSE result = IF Number_isFinite(args[4]) THEN args[4] ELSE 0

\* a 0.53 molal solution with i = 1.9 at 100 degC: 0.5165 degC, whatever
\* the static field says
C24_Witness ==
  /\ phase = "done"
  /\ args[1] = Celsius(100, 0) /\ args[2] = 1900 /\ args[3] = 530
  /\ args[4] = Celsius(0, 50000)
  /\ result > Celsius(0, 51600) /\ result < Celsius(0, 51700)

\* the static field is what is returned when molality is missing
C24_StaticCase ==
  /\ phase = "done"
  /\ args[2] = 1900 /\ args[3] = Undefined /\ args[4] = Celsius(0, 50000)
  /\ result = Celsius(0, 50000)

(***************************************************************************)
(* The energy of one heating tick (SpecTick)                               *)
(***************************************************************************)
\* the latest tick heated a substance with specificHeat > 0 and
\* heatOfVaporization > 0 and ran past the guards
HeatingTick ==
  /\ PastTheGuards
  /\ Gt(input.heat, 0)
  /\ Number_isFinite(input.fluid[1].specificHeat)
  /\ Gt(input.fluid[1].specificHeat, 0)
  /\ Gt(input.fluid[1].heatOfVaporization, 0)

\* fluidMass * 1000 * specificHeat * (returned temperature - input temperature)
\* + steamGenerated * heatOfVaporization * 1000
EnergyAccounted ==
  Plus(calculateHeatingEnergy(prev.waterMass, prev.temperature, state.temperature,
                              input.fluid[1]),
       Times(state.steamGenerated, Times(input.fluid[1].heatOfVaporization, 1000, 1),
             MassScale \div EScale))

\* C27: on every heating tick that passes the guards, heatInputWatts *
\* deltaTime == fluidMass * 1000 * specificHeat * (returned temperature -
\* input temperature) + steamGenerated * heatOfVaporization * 1000, whatever
\* the canBoil flag and the evaporable mass left; the two sides are compared
\* to within one joule, the resolution of the numbers here.
C27_EnergyAccountedPerHeatingTick ==
  HeatingTick =>
    Le(Math_abs(Minus(Times(input.heat, input.dt, 1), EnergyAccounted)), EScale)

\* C28: for every input state with evaporable mass, whatever its temperature
\* relative to the boiling point, and every heatInputWatts > 0 and deltaTime
\* > 0, the temperature simulateTimeStep returns is >= the input temperature.
C28_HeatingNeverLowersTemperature ==
  op = "tick" /\ ~NoEvaporableMass(prev) /\ Gt(input.heat, 0) /\ Gt(input.dt, 0) =>
    Ge(state.temperature, prev.temperature)

(***************************************************************************)
(* The boiling point as a ceiling (SpecChain)                              *)
(***************************************************************************)
\* C29: with a fixed altitude and a fixed boilable substance, starting at or
\* below the boiling point, every state returned over any sequence of ticks
\* (positive, zero and negative heat inputs) has temperature <= the boiling
\* point.
C29_BoilingPointIsCeiling ==
  Le(state.temperature, BoilingPointOf(state, input.fluid))

\* heated up to the boiling point in one tick and heated again in the next:
\* the temperature stays at the boiling point while mass boils off
C29_Witness ==
  /\ ticks >= 2
  /\ Gt(input.heat, 0)
  /\ Lt(state.waterMass, prev.waterMass)
  /\ prev.temperature = BoilingPointOf(state, input.fluid)
  /\ state.temperature = BoilingPointOf(state, input.fluid)

(***************************************************************************)
(* Depletion under sustained heating (SpecSustainedLive)                   *)
(***************************************************************************)
\* fluidMass == residueMass
Depleted(s) == s.waterMass = ResidueMass(s)

\* every tick made on a depleted state returns allEvaporated true
FlaggedAfterDepletion ==
  op = "tick" /\ Depleted(prev) => state.allEvaporated = "true"

\* the energy of one tick is enough to change the numbers: the temperature
\* step energy / (massGrams * specificHeat) and the steam step
\* energy / (heatOfVaporization * 1000) are both above zero
HeatRegisters ==
  LET energy == Times(input.heat, input.dt, 1)
      fp     == input.fluid[1]
  IN  /\ Gt(Over(energy, HeatCapacity(MassGrams(state.waterMass), fp.specificHeat),
                 (TScale * McScale) \div EScale), 0)
      /\ Gt(Over(energy, Times(fp.heatOfVaporization, 1000, 1),
                 MassScale \div EScale), 0)

C30_StalledCase ==
  /\ op = "tick"
  /\ ~Depleted(state)
  /\ state = prev
  /\ ~HeatRegisters

(***************************************************************************)
(* Mass conservation over a chain of ticks (Spec)                          *)
(***************************************************************************)
\* C26: over any sequence of ticks in which each returned state is the next
\* input, the initial fluid mass equals the fluid mass of the latest state
\* plus the sum of the steamGenerated values of all returned states.
C26_MassConservedAcrossTicks ==
  ledger.initialMass = Plus(state.waterMass, ledger.steam)

(***************************************************************************)
(* Property of the App component (SpecAppLive)                             *)
(***************************************************************************)
\* Header and GameScene are on screen
AppShown == app.rendered.header /\ app.rendered.gameScene # Absent

\* C25: themeLoaded eventually becomes true and Header and GameScene are
\* eventually rendered, whether initializeTheme resolves or rejects; Header
\* and GameScene are never rendered while themeLoaded is false.
C25_AppShownOnceThemeSettles ==
  /\ [](app.rendered.header \/ app.rendered.gameScene # Absent => app.themeLoaded)
  /\ <>[]app.themeLoaded
  /\ <>[]AppShown

\* the theme failed to load and the app is on screen with browser defaults
C25_Witness ==
  /\ app.theme = "defaults"
  /\ app.themeLoaded
  /\ AppShown

=============================================================================
